---------------------------- MODULE Spec2Model ----------------------------
(***************************************************************************)
(* The subtitle-synthesis pipeline of app/services/subtitle_processor.py.  *)
(*                                                                         *)
(* A text is a sequence of one-character strings, so that len(), split(),  *)
(* lower(), startswith() and the substring test `pattern in label` are     *)
(* computed as the Python code computes them.  An event is a record with   *)
(* the keys of the Python dict: start, end, text, type, and for sound      *)
(* events confidence, source and priority.  Confidences are hundredths.    *)
(***************************************************************************)
EXTENDS Integers, Sequences, FiniteSets, TLC

VARIABLES
  args,     \* the arguments of the pure function under test
  ret,      \* what the function returned
  called,   \* whether the function has been applied
  pc,                    \* where generate_subtitles stands
  failed,                \* the detectors that raised for this video
  config,                \* the subtitle_configs row of the order
  api_key,               \* whether settings.OPENAI_API_KEY is set
  speech_subtitles,      \* generate_speech_subtitles' result
  sound_subtitles,       \* generate_sound_subtitles' result
  merged_subtitles,
  formatted_subtitles,
  translated_subtitles,
  tr,                    \* the frames of translate_subtitles while it runs
  exported,              \* the list handed to export_subtitles and the file written
  order                  \* process_order: the order's videos, rows and files

harness == <<args, ret, called>>
pipeline == <<pc, failed, config, api_key, speech_subtitles, sound_subtitles,
              merged_subtitles, formatted_subtitles, translated_subtitles, tr, exported>>
vars == <<args, ret, called, pc, failed, config, api_key, speech_subtitles, sound_subtitles,
          merged_subtitles, formatted_subtitles, translated_subtitles, tr, exported, order>>

\* the pipeline at rest, while one function is examined alone
PipelineIdle ==
  /\ pc = "idle"
  /\ failed = {}
  /\ config = <<>>
  /\ api_key = FALSE
  /\ speech_subtitles = <<>>
  /\ sound_subtitles = <<>>
  /\ merged_subtitles = <<>>
  /\ formatted_subtitles = <<>>
  /\ translated_subtitles = <<>>
  /\ tr = <<>>
  /\ exported = <<>>

\* no function is examined alone while the pipeline runs
HarnessIdle ==
  /\ args = <<>>
  /\ ret = <<>>
  /\ called = FALSE

\* no order is being processed
OrderIdle == order = <<>>

None == "None"

(***************************************************************************)
(* Python built-ins on strings and lists                                   *)
(***************************************************************************)
Range(s) == {s[i] : i \in 1..Len(s)}

Min(S) == CHOOSE x \in S : \A y \in S : x <= y

Whitespace == {" ", "\n", "\t", "\r"}

UpperCase == <<"A","B","C","D","E","F","G","H","I","J","K","L","M","N","O","P","Q","R","S","T","U","V","W","X","Y","Z">>
LowerCase == <<"a","b","c","d","e","f","g","h","i","j","k","l","m","n","o","p","q","r","s","t","u","v","w","x","y","z">>

lower_char(c) ==
  IF \E i \in 1..Len(UpperCase) : UpperCase[i] = c
  THEN LowerCase[CHOOSE i \in 1..Len(UpperCase) : UpperCase[i] = c]
  ELSE c

\* str.lower()
str_lower(s) == [i \in 1..Len(s) |-> lower_char(s[i])]

\* str.replace(c, '')
str_remove(s, c) == SelectSeq(s, LAMBDA x : x # c)

\* str.strip()
str_strip(s) ==
  LET keep == {i \in 1..Len(s) : s[i] \notin Whitespace}
  IN  IF keep = {} THEN <<>>
      ELSE SubSeq(s, Min(keep), CHOOSE i \in keep : \A j \in keep : j <= i)

\* pattern in s
str_contains(pattern, s) ==
  \E i \in 0..(Len(s) - Len(pattern)) :
    \A j \in 1..Len(pattern) : s[i + j] = pattern[j]

\* s.startswith(prefix)
str_startswith(s, prefix) ==
  /\ Len(prefix) <= Len(s)
  /\ \A j \in 1..Len(prefix) : s[j] = prefix[j]

\* str.split(): the maximal runs of non-whitespace characters, in order
RECURSIVE split_from(_, _, _)
split_from(s, i, word) ==
  IF i > Len(s)
  THEN IF word = <<>> THEN <<>> ELSE <<word>>
  ELSE IF s[i] \in Whitespace
       THEN IF word = <<>> THEN split_from(s, i + 1, <<>>)
            ELSE <<word>> \o split_from(s, i + 1, <<>>)
       ELSE split_from(s, i + 1, Append(word, s[i]))

str_split(s) == split_from(s, 1, <<>>)

\* s.split(sep) for a one-character separator
split_on(s, sep) ==
  LET at == SelectSeq([i \in 1..Len(s) |-> i], LAMBDA i : s[i] = sep)
      cut == <<0>> \o at \o <<Len(s) + 1>>
  IN  [k \in 1..(Len(at) + 1) |-> SubSeq(s, cut[k] + 1, cut[k + 1] - 1)]

\* len(text.split()), without building the words
word_count_of(s) ==
  Cardinality({i \in 1..Len(s) :
                 s[i] \notin Whitespace /\ (i = 1 \/ s[i - 1] \in Whitespace)})

\* " ".join(words)
RECURSIVE join_space(_)
join_space(words) ==
  IF words = <<>> THEN <<>>
  ELSE IF Len(words) = 1 THEN words[1]
  ELSE words[1] \o <<" ">> \o join_space(Tail(words))

\* the lists ss[lo], ..., ss[hi] joined in order; the range is halved so that
\* the evaluation stays shallow on long lists
RECURSIVE concat_range(_, _, _)
concat_range(ss, lo, hi) ==
  IF lo > hi THEN <<>>
  ELSE IF lo = hi THEN ss[lo]
  ELSE concat_range(ss, lo, (lo + hi) \div 2)
       \o concat_range(ss, (lo + hi) \div 2 + 1, hi)

\* list.extend / file.write for every element in turn
concat(ss) == concat_range(ss, 1, Len(ss))

\* list.index(x), 0-based
list_index(l, x) == (CHOOSE i \in 1..Len(l) : l[i] = x /\ \A j \in 1..(i - 1) : l[j] # x) - 1

\* key(a) < key(b) for keys that are tuples of numbers of one length
key_lt(a, b) ==
  \E k \in 1..Len(a) : a[k] < b[k] /\ \A j \in 1..(k - 1) : a[j] = b[j]

\* sorted(l, key=...): Python's sort is stable.  keys[i] is the key of l[i].
stable_sort(l, keys) ==
  LET rank == [i \in 1..Len(l) |->
                 Cardinality({j \in 1..Len(l) :
                    \/ key_lt(keys[j], keys[i])
                    \/ keys[j] = keys[i] /\ j < i})]
  IN  [k \in 1..Len(l) |-> l[CHOOSE i \in 1..Len(l) : rank[i] = k - 1]]

\* sorted(l, key=lambda x: x["start"])
sorted_by_start(l) == stable_sort(l, [i \in 1..Len(l) |-> <<l[i].start>>])

(***************************************************************************)
(* The module-level tables                                                 *)
(***************************************************************************)
SOUND_LABEL_PATTERNS ==
  << [key |-> "speech", patterns |-> <<<<"s","p","e","e","c","h">>, <<"s","p","e","a","k">>, <<"t","a","l","k">>, <<"v","o","i","c","e">>, <<"c","o","n","v","e","r","s","a","t","i","o","n">>, <<"d","i","a","l","o","g","u","e">>>>],
     [key |-> "music", patterns |-> <<<<"m","u","s","i","c">>, <<"s","o","n","g">>, <<"m","e","l","o","d","y">>, <<"m","u","s","i","c","a","l">>, <<"i","n","s","t","r","u","m","e","n","t">>, <<"p","i","a","n","o">>, <<"g","u","i","t","a","r">>, <<"d","r","u","m">>>>],
     [key |-> "laughter", patterns |-> <<<<"l","a","u","g","h">>, <<"l","a","u","g","h","t","e","r">>, <<"g","i","g","g","l","e">>, <<"c","h","u","c","k","l","e">>>>],
     [key |-> "applause", patterns |-> <<<<"a","p","p","l","a","u","s","e">>, <<"c","l","a","p">>, <<"c","l","a","p","p","i","n","g">>, <<"o","v","a","t","i","o","n">>>>],
     [key |-> "footsteps", patterns |-> <<<<"f","o","o","t","s","t","e","p">>, <<"f","o","o","t","s","t","e","p","s">>, <<"w","a","l","k">>, <<"s","t","e","p">>, <<"r","u","n","n","i","n","g">>, <<"j","o","g","g","i","n","g">>>>],
     [key |-> "door", patterns |-> <<<<"d","o","o","r">>, <<"s","l","a","m">>, <<"o","p","e","n","i","n","g">>, <<"c","l","o","s","i","n","g">>, <<"k","n","o","c","k">>, <<"k","n","o","c","k","i","n","g">>>>],
     [key |-> "car", patterns |-> <<<<"c","a","r">>, <<"v","e","h","i","c","l","e">>, <<"e","n","g","i","n","e">>, <<"m","o","t","o","r">>, <<"a","u","t","o","m","o","b","i","l","e">>, <<"t","r","u","c","k">>>>],
     [key |-> "thunder", patterns |-> <<<<"t","h","u","n","d","e","r">>, <<"s","t","o","r","m">>, <<"l","i","g","h","t","n","i","n","g">>, <<"r","u","m","b","l","e">>>>],
     [key |-> "glass", patterns |-> <<<<"g","l","a","s","s">>, <<"b","r","e","a","k">>, <<"s","h","a","t","t","e","r">>, <<"c","r","a","s","h">>, <<"s","m","a","s","h">>>>],
     [key |-> "gunshot", patterns |-> <<<<"g","u","n","s","h","o","t">>, <<"g","u","n">>, <<"s","h","o","t">>, <<"f","i","r","e">>, <<"s","h","o","o","t","i","n","g">>, <<"b","u","l","l","e","t">>>>],
     [key |-> "explosion", patterns |-> <<<<"e","x","p","l","o","s","i","o","n">>, <<"b","l","a","s","t">>, <<"b","o","o","m">>, <<"e","x","p","l","o","d","e">>, <<"d","e","t","o","n","a","t","e">>>>],
     [key |-> "scream", patterns |-> <<<<"s","c","r","e","a","m">>, <<"s","h","o","u","t">>, <<"y","e","l","l">>, <<"s","h","r","i","e","k">>, <<"c","r","y">>>>],
     [key |-> "whisper", patterns |-> <<<<"w","h","i","s","p","e","r">>, <<"m","u","r","m","u","r">>, <<"q","u","i","e","t">>, <<"s","o","f","t">>>>],
     [key |-> "breathing", patterns |-> <<<<"b","r","e","a","t","h">>, <<"b","r","e","a","t","h","i","n","g">>, <<"i","n","h","a","l","e">>, <<"e","x","h","a","l","e">>, <<"g","a","s","p">>>>],
     [key |-> "heartbeat", patterns |-> <<<<"h","e","a","r","t","b","e","a","t">>, <<"h","e","a","r","t">>, <<"p","u","l","s","e">>, <<"b","e","a","t">>>>],
     [key |-> "cheer", patterns |-> <<<<"c","h","e","e","r">>, <<"c","h","e","e","r","i","n","g">>, <<"h","o","o","r","a","y">>, <<"c","e","l","e","b","r","a","t","i","o","n">>>>],
     [key |-> "water", patterns |-> <<<<"w","a","t","e","r">>, <<"s","p","l","a","s","h">>, <<"d","r","o","p">>, <<"r","a","i","n">>, <<"p","o","u","r">>>>],
     [key |-> "wind", patterns |-> <<<<"w","i","n","d">>, <<"b","r","e","e","z","e">>, <<"g","u","s","t">>, <<"b","l","o","w">>>>],
     [key |-> "bell", patterns |-> <<<<"b","e","l","l">>, <<"r","i","n","g">>, <<"c","h","i","m","e">>, <<"d","i","n","g">>>>],
     [key |-> "phone", patterns |-> <<<<"p","h","o","n","e">>, <<"t","e","l","e","p","h","o","n","e">>, <<"r","i","n","g">>, <<"c","a","l","l">>>>],
     [key |-> "typing", patterns |-> <<<<"t","y","p","i","n","g">>, <<"k","e","y","b","o","a","r","d">>, <<"t","y","p","e">>, <<"c","l","i","c","k">>>>],
     [key |-> "alarm", patterns |-> <<<<"a","l","a","r","m">>, <<"a","l","e","r","t">>, <<"s","i","r","e","n">>, <<"w","a","r","n","i","n","g">>>>],
     [key |-> "animal", patterns |-> <<<<"d","o","g">>, <<"c","a","t">>, <<"b","i","r","d">>, <<"b","a","r","k">>, <<"m","e","o","w">>, <<"c","h","i","r","p">>, <<"a","n","i","m","a","l">>>>],
     [key |-> "crowd", patterns |-> <<<<"c","r","o","w","d">>, <<"p","e","o","p","l","e">>, <<"a","u","d","i","e","n","c","e">>, <<"g","r","o","u","p">>>>],
     [key |-> "impact", patterns |-> <<<<"h","i","t">>, <<"p","u","n","c","h">>, <<"s","l","a","p">>, <<"b","a","n","g">>, <<"t","h","u","d">>>>],
     [key |-> "mechanical", patterns |-> <<<<"m","e","c","h","a","n","i","c","a","l">>, <<"m","a","c","h","i","n","e">>, <<"b","e","e","p">>, <<"b","u","z","z">>, <<"w","h","i","r">>>>],
     [key |-> "fire", patterns |-> <<<<"f","i","r","e">>, <<"c","r","a","c","k","l","e">>, <<"b","u","r","n">>, <<"f","l","a","m","e">>>>],
     [key |-> "electronic", patterns |-> <<<<"e","l","e","c","t","r","o","n","i","c">>, <<"d","i","g","i","t","a","l">>, <<"b","e","e","p">>, <<"b","l","e","e","p">>, <<"s","i","g","n","a","l">>>>] >>

GENRE_FILTERS ==
  [ horror |-> [priority |-> <<"scream", "thunder", "footsteps", "door", "breathing", "heartbeat", "whisper", "glass", "impact">>,
        allowed |-> <<"scream", "thunder", "footsteps", "door", "breathing", "heartbeat", "whisper", "glass", "impact", "wind", "animal", "mechanical", "fire">>,
        blocked |-> <<"laughter", "applause", "cheer", "music">>],
    comedy |-> [priority |-> <<"laughter", "applause", "cheer", "impact", "footsteps">>,
        allowed |-> <<"laughter", "applause", "cheer", "music", "footsteps", "door", "impact", "crowd", "animal">>,
        blocked |-> <<"scream", "gunshot", "explosion", "thunder", "breathing", "heartbeat">>],
    romance |-> [priority |-> <<"music", "whisper", "breathing", "heartbeat", "footsteps">>,
        allowed |-> <<"music", "whisper", "breathing", "heartbeat", "footsteps", "door", "laughter", "water", "wind", "bell">>,
        blocked |-> <<"gunshot", "explosion", "scream", "thunder", "glass", "impact", "alarm">>],
    action |-> [priority |-> <<"gunshot", "explosion", "car", "footsteps", "door", "glass", "impact">>,
        allowed |-> <<"gunshot", "explosion", "footsteps", "car", "door", "glass", "impact", "thunder", "mechanical", "crowd", "alarm">>,
        blocked |-> <<"whisper", "breathing", "heartbeat", "laughter", "music">>],
    documentary |-> [priority |-> <<"footsteps", "door", "car", "music", "applause", "crowd">>,
        allowed |-> <<"footsteps", "door", "car", "music", "applause", "water", "wind", "animal", "crowd", "bell", "mechanical">>,
        blocked |-> <<"scream", "gunshot", "explosion", "thunder", "glass">>],
    drama |-> [priority |-> <<"footsteps", "door", "breathing", "whisper", "music", "car">>,
        allowed |-> <<"footsteps", "door", "breathing", "whisper", "music", "car", "phone", "typing", "crowd", "water", "wind">>,
        blocked |-> <<"explosion", "gunshot", "scream", "thunder">>],
    thriller |-> [priority |-> <<"footsteps", "door", "breathing", "heartbeat", "phone", "car">>,
        allowed |-> <<"footsteps", "door", "breathing", "heartbeat", "phone", "car", "whisper", "glass", "impact", "mechanical", "alarm">>,
        blocked |-> <<"laughter", "applause", "cheer", "music">>],
    general |-> [priority |-> <<"footsteps", "door", "laughter", "applause", "music", "car">>,
        allowed |-> <<"footsteps", "door", "laughter", "applause", "music", "car", "phone", "bell", "crowd", "animal", "water", "wind">>,
        blocked |-> <<>>] ]

label_formats ==
  [ speech |-> <<"S","p","e","e","c","h">>,
    music |-> <<"M","u","s","i","c">>,
    laughter |-> <<"L","a","u","g","h","t","e","r">>,
    applause |-> <<"A","p","p","l","a","u","s","e">>,
    footsteps |-> <<"F","o","o","t","s","t","e","p","s">>,
    door |-> <<"D","o","o","r"," ","s","l","a","m">>,
    car |-> <<"C","a","r"," ","e","n","g","i","n","e">>,
    thunder |-> <<"T","h","u","n","d","e","r">>,
    glass |-> <<"G","l","a","s","s"," ","b","r","e","a","k","i","n","g">>,
    gunshot |-> <<"G","u","n","s","h","o","t">>,
    explosion |-> <<"E","x","p","l","o","s","i","o","n">>,
    scream |-> <<"S","c","r","e","a","m">>,
    whisper |-> <<"W","h","i","s","p","e","r">>,
    breathing |-> <<"B","r","e","a","t","h","i","n","g">>,
    heartbeat |-> <<"H","e","a","r","t","b","e","a","t">>,
    cheer |-> <<"C","h","e","e","r","i","n","g">>,
    water |-> <<"W","a","t","e","r"," ","s","o","u","n","d">>,
    wind |-> <<"W","i","n","d">>,
    bell |-> <<"B","e","l","l"," ","r","i","n","g","i","n","g">>,
    phone |-> <<"P","h","o","n","e"," ","r","i","n","g","i","n","g">>,
    typing |-> <<"T","y","p","i","n","g">>,
    alarm |-> <<"A","l","a","r","m">>,
    animal |-> <<"A","n","i","m","a","l"," ","s","o","u","n","d">>,
    crowd |-> <<"C","r","o","w","d"," ","n","o","i","s","e">>,
    impact |-> <<"I","m","p","a","c","t"," ","s","o","u","n","d">>,
    mechanical |-> <<"M","e","c","h","a","n","i","c","a","l"," ","s","o","u","n","d">>,
    fire |-> <<"F","i","r","e"," ","c","r","a","c","k","l","i","n","g">>,
    electronic |-> <<"E","l","e","c","t","r","o","n","i","c"," ","s","o","u","n","d">> ]

(***************************************************************************)
(* EventReconciler: labels, genre filter, priority                         *)
(***************************************************************************)
format_sound_label(sound_type, original_label) ==
  LET formatted == IF sound_type \in DOMAIN label_formats
                   THEN label_formats[sound_type]
                   ELSE original_label
  IN  <<"[">> \o formatted \o <<"]">>

\* returns the empty text where the code returns None: the callers test only
\* the result's truth value
normalize_sound_label(raw_label) ==
  IF raw_label = <<>> \/ str_strip(raw_label) = <<>> THEN <<>>
  ELSE
    LET raw_lower == str_strip(str_lower(raw_label))
        hits == {i \in 1..Len(SOUND_LABEL_PATTERNS) :
                   \E p \in Range(SOUND_LABEL_PATTERNS[i].patterns) :
                     str_contains(p, raw_lower)}
    IN  IF hits = {} THEN format_sound_label("unknown", raw_label)
        ELSE format_sound_label(SOUND_LABEL_PATTERNS[Min(hits)].key, raw_label)

\* line 560: lower(), brackets removed, strip()
clean_label(sound_label) ==
  str_strip(str_remove(str_remove(str_lower(sound_label), "["), "]"))

extract_sound_key(sound_label) ==
  LET sound_clean == clean_label(sound_label)
      hits == {i \in 1..Len(SOUND_LABEL_PATTERNS) :
                 \E p \in Range(SOUND_LABEL_PATTERNS[i].patterns) :
                   str_contains(p, sound_clean)}
  IN  IF hits = {} THEN None ELSE SOUND_LABEL_PATTERNS[Min(hits)].key

should_include_sound_no_allowed(sound_label, genre) ==
  IF genre \notin DOMAIN GENRE_FILTERS THEN TRUE
  ELSE LET sound_key == extract_sound_key(sound_label)
       IN  sound_key # None /\ sound_key \notin Range(GENRE_FILTERS[genre].blocked)

should_include_sound(sound_label, genre) ==
  IF genre \notin DOMAIN GENRE_FILTERS THEN TRUE
  ELSE LET sound_key == extract_sound_key(sound_label)
           filters == GENRE_FILTERS[genre]
           allowed_sounds == filters.allowed
       IN  IF sound_key = None THEN FALSE
           ELSE IF sound_key \in Range(filters.blocked) THEN FALSE
           ELSE IF allowed_sounds # <<>> /\ sound_key \notin Range(allowed_sounds)
                THEN FALSE
           ELSE TRUE

get_sound_priority_from_one(sound_label, genre) ==
  LET sound_key == extract_sound_key(sound_label)
  IN  IF sound_key = None \/ genre \notin DOMAIN GENRE_FILTERS THEN 0
      ELSE LET priority_sounds == GENRE_FILTERS[genre].priority
           IN  IF sound_key \in Range(priority_sounds)
               THEN list_index(priority_sounds, sound_key) + 1
               ELSE 1

get_sound_priority(sound_label, genre) ==
  LET sound_key == extract_sound_key(sound_label)
  IN  IF sound_key = None \/ genre \notin DOMAIN GENRE_FILTERS THEN 0
      ELSE LET priority_sounds == GENRE_FILTERS[genre].priority
           IN  IF sound_key \in Range(priority_sounds)
               THEN list_index(priority_sounds, sound_key) + 10
               ELSE 1

\* the labels classify_onset_type can return (lines 473-489)
OnsetLabels ==
  { <<"[","G","l","a","s","s"," ","b","r","e","a","k","i","n","g","]">>, <<"[","D","o","o","r"," ","s","l","a","m","]">>, <<"[","E","x","p","l","o","s","i","o","n","]">>, <<"[","A","p","p","l","a","u","s","e","]">>,
    <<"[","F","o","o","t","s","t","e","p","s","]">>, <<"[","T","h","u","n","d","e","r","]">>, <<"[","I","m","p","a","c","t"," ","s","o","u","n","d","]">> }

\* class names of the classifier, as normalize_sound_label receives them
RawLabels ==
  { <<"S","p","e","e","c","h">>, <<"M","u","s","i","c">>, <<"L","a","u","g","h","t","e","r">>, <<"S","c","r","e","a","m","i","n","g">>, <<"S","i","l","e","n","c","e">>, <<"D","o","o","r">>,
    <<"T","e","l","e","p","h","o","n","e"," ","b","e","l","l"," ","r","i","n","g","i","n","g">>, <<"F","i","r","e">>, <<"C","r","a","c","k","l","e">>, <<"T","h","u","m","p",","," ","t","h","u","d">>, <<"V","e","h","i","c","l","e">>,
    <<"W","h","i","s","p","e","r","i","n","g">>, <<"R","a","i","n">>, <<"D","o","g">>, <<"T","y","p","i","n","g">>, <<"H","e","a","r","t"," ","s","o","u","n","d","s",","," ","h","e","a","r","t","b","e","a","t">>,
    <<"G","u","n","s","h","o","t",","," ","g","u","n","f","i","r","e">>, <<"W","i","n","d">>, <<"C","h","e","e","r","i","n","g">>, <<"S","i","r","e","n">>, <<"H","u","b","b","u","b">>, <<"B","e","e","p",","," ","b","l","e","e","p">>,
    <<"I","n","s","i","d","e",","," ","s","m","a","l","l"," ","r","o","o","m">>, <<" ","O","w","l"," ">> }

\* every display label format_sound_label can produce for a taxonomy category
CanonicalLabels ==
  {format_sound_label(SOUND_LABEL_PATTERNS[i].key, <<>>) :
     i \in 1..Len(SOUND_LABEL_PATTERNS)}

SoundLabels ==
  OnsetLabels \cup CanonicalLabels \cup {normalize_sound_label(r) : r \in RawLabels}
  \cup { <<"[","L","a","u","g","h","t","e","r","]">>, <<"[","S","c","r","e","a","m","]">>, <<"[","M","u","s","i","c","]">> }

Genres == DOMAIN GENRE_FILTERS \cup {"scifi", None}

(***************************************************************************)
(* EventReconciler: deduplication                                          *)
(***************************************************************************)
\* event.get("priority", 0)
get_priority(event) == IF "priority" \in DOMAIN event THEN event.priority ELSE 0

\* key=lambda x: (x["start"], -x.get("priority", 0), -x["confidence"])
dedup_key(event) == <<event.start, -get_priority(event), -event.confidence>>

sort_for_dedup_missing(events) == events

\* line 592: events.sort(key=...)
sort_for_dedup(events) ==
  stable_sort(events, [i \in 1..Len(events) |-> dedup_key(events[i])])

abs(x) == IF x < 0 THEN -x ELSE x

\* list.remove(x): drops the first element equal to x
list_remove(l, x) ==
  LET i == CHOOSE k \in 1..Len(l) : l[k] = x /\ \A j \in 1..(k - 1) : l[j] # x
  IN  SubSeq(l, 1, i - 1) \o SubSeq(l, i + 1, Len(l))

dedup_step_first_kept(deduplicated, event) ==
  LET hits == {i \in 1..Len(deduplicated) :
                 /\ deduplicated[i].text = event.text
                 /\ abs(deduplicated[i].start - event.start) < 1500}
  IN  IF hits = {} THEN Append(deduplicated, event) ELSE deduplicated

\* lines 596-609: one iteration of the outer loop
dedup_step(deduplicated, event) ==
  LET hits == {i \in 1..Len(deduplicated) :
                 /\ deduplicated[i].text = event.text
                 /\ abs(deduplicated[i].start - event.start) < 1500}
  IN  IF hits = {} THEN Append(deduplicated, event)
      ELSE LET existing == deduplicated[Min(hits)]
           IN  IF \/ get_priority(event) > get_priority(existing)
                  \/ /\ get_priority(event) = get_priority(existing)
                     /\ event.confidence > existing.confidence
               THEN Append(list_remove(deduplicated, existing), event)
               ELSE deduplicated

\* the loop of lines 595-609 over events[lo..hi], entered with the accepted
\* list `deduplicated`; the range is halved and its first half evaluated
\* before the second is entered, so that the evaluation stays shallow
RECURSIVE dedup_scan(_, _, _, _)
dedup_scan(events, lo, hi, deduplicated) ==
  IF lo > hi THEN deduplicated
  ELSE IF lo = hi THEN dedup_step(deduplicated, events[lo])
  ELSE LET first_half == dedup_scan(events, lo, (lo + hi) \div 2, deduplicated)
       IN  IF Len(first_half) >= 0
           THEN dedup_scan(events, (lo + hi) \div 2 + 1, hi, first_half)
           ELSE first_half

\* line 592: events.sort(...) orders the list passed in, in place
events_after_deduplicate(events) ==
  IF events = <<>> THEN events ELSE sort_for_dedup(events)

deduplicate_sound_events(events) ==
  IF events = <<>> THEN <<>>
  ELSE LET sorted == sort_for_dedup(events)
       IN  sorted_by_start(dedup_scan(sorted, 1, Len(sorted), <<>>))

\* lines 583-584: event["priority"] = ... is set on the event itself
with_priority(event, genre) ==
  [start |-> event.start, end |-> event.end,
   text |-> event.text, type |-> event.type,
   confidence |-> event.confidence,
   source |-> event.source,
   priority |-> get_sound_priority(event.text, genre)]

\* a list passed to combine_sound_events as the call leaves it
events_after_combine(events, genre) ==
  [i \in 1..Len(events) |-> with_priority(events[i], genre)]

combine_sound_events(yamnet_events, librosa_events, genre) ==
  LET all_events == yamnet_events \o librosa_events
  IN  deduplicate_sound_events(events_after_combine(all_events, genre))

(***************************************************************************)
(* TrackMerger                                                             *)
(***************************************************************************)
is_overlapping_strict(sound_sub, speech_sub) ==
  sound_sub.start < speech_sub.end /\ sound_sub.end > speech_sub.start

\* lines 664-665
is_overlapping(sound_sub, speech_sub) ==
  sound_sub.start <= speech_sub.end /\ sound_sub.end >= speech_sub.start

merge_subtitles_speech_kept(speech, sound, accessibility_mode, non_verbal_only_mode) ==
  LET kept(sound_sub) ==
        \/ accessibility_mode
        \/ ~\E i \in 1..Len(speech) : sound_sub.start <= speech[i].end
                                       /\ sound_sub.end >= speech[i].start
  IN  sorted_by_start(speech \o SelectSeq(sound, kept))

merge_subtitles(speech, sound, accessibility_mode, non_verbal_only_mode) ==
  IF non_verbal_only_mode THEN sorted_by_start(sound)
  ELSE
    LET kept(sound_sub) ==
          \/ accessibility_mode
          \/ ~\E i \in 1..Len(speech) : is_overlapping(sound_sub, speech[i])
    IN  sorted_by_start(speech \o SelectSeq(sound, kept))

(***************************************************************************)
(* LineFormatter                                                           *)
(***************************************************************************)
\* int(x / y) for the float quotient of integers x and y > 0: towards zero
trunc_div(x, y) == IF x >= 0 THEN x \div y ELSE -((-x) \div y)

fits_without_space(current_chars, word, max_chars) ==
  current_chars + Len(word) <= max_chars

\* line 701
fits(current_chars, word, max_chars) ==
  current_chars + Len(word) + 1 <= max_chars

format_word_cursor_kept(st, word, sub, max_chars) ==
  IF fits(st.current_chars, word, max_chars)
  THEN [st EXCEPT
          !.current_text = (IF st.current_text # <<>>
                            THEN st.current_text \o <<" ">> ELSE <<>>) \o word,
          !.current_chars = (IF st.current_text # <<>>
                             THEN st.current_chars + 1 ELSE st.current_chars) + Len(word)]
  ELSE IF st.current_text # <<>>
  THEN LET duration == sub.end - st.start
           partial_duration == trunc_div(duration * Len(st.current_text), Len(sub.text))
       IN  [current_text |-> word,
            current_chars |-> Len(word),
            start |-> st.start,
            out |-> Append(st.out, [start |-> st.start,
                                    end |-> st.start + partial_duration,
                                    text |-> st.current_text,
                                    type |-> "speech"])]
  ELSE st

\* lines 700-722: one iteration of the loop over the words.  st.start is
\* sub["start"], which the loop advances in place; st.out is what the loop has
\* appended to formatted.
format_word(st, word, sub, max_chars) ==
  IF fits(st.current_chars, word, max_chars)
  THEN [st EXCEPT
          !.current_text = (IF st.current_text # <<>>
                            THEN st.current_text \o <<" ">> ELSE <<>>) \o word,
          !.current_chars = (IF st.current_text # <<>>
                             THEN st.current_chars + 1 ELSE st.current_chars) + Len(word)]
  ELSE IF st.current_text # <<>>
  THEN LET duration == sub.end - st.start
           partial_duration == trunc_div(duration * Len(st.current_text), Len(sub.text))
       IN  [current_text |-> word,
            current_chars |-> Len(word),
            start |-> st.start + partial_duration,
            out |-> Append(st.out, [start |-> st.start,
                                    end |-> st.start + partial_duration,
                                    text |-> st.current_text,
                                    type |-> "speech"])]
  ELSE st

\* the loop's variables after the first n words
RECURSIVE format_words(_, _, _, _)
format_words(words, n, sub, max_chars) ==
  IF n = 0
  THEN [current_text |-> <<>>, current_chars |-> 0, start |-> sub.start, out |-> <<>>]
  ELSE format_word(format_words(words, n - 1, sub, max_chars), words[n], sub, max_chars)

\* lines 684-730: the events one input event appends to formatted
format_event(sub, max_chars) ==
  IF sub.type = "sound" THEN <<sub>>
  ELSE IF Len(sub.text) <= max_chars THEN <<sub>>
  ELSE
    LET st == format_words(str_split(sub.text), Len(str_split(sub.text)), sub, max_chars)
    IN  IF st.current_text # <<>>
        THEN Append(st.out, [start |-> st.start, end |-> sub.end,
                             text |-> st.current_text, type |-> "speech"])
        ELSE st.out

\* line 720: the input event after the loop, its start advanced in place past
\* every chunk that was split off
sub_after_format(sub, max_chars) ==
  IF sub.type = "sound" THEN sub
  ELSE IF Len(sub.text) <= max_chars THEN sub
  ELSE [sub EXCEPT !.start = format_words(str_split(sub.text), Len(str_split(sub.text)),
                                          sub, max_chars).start]

\* the list passed to format_subtitles as the call leaves it
subtitles_after_format(subtitles, max_chars_per_line, lines_per_subtitle) ==
  [i \in 1..Len(subtitles) |->
     sub_after_format(subtitles[i], max_chars_per_line * lines_per_subtitle)]

\* lines 683-730: the loop over the input events
format_all(subtitles, max_chars) ==
  concat([i \in 1..Len(subtitles) |-> format_event(subtitles[i], max_chars)])

format_subtitles_unsorted(subtitles, max_chars_per_line, lines_per_subtitle) ==
  format_all(subtitles, max_chars_per_line * lines_per_subtitle)

\* line 732: formatted.sort(key=lambda x: x["start"])
format_subtitles(subtitles, max_chars_per_line, lines_per_subtitle) ==
  sorted_by_start(format_all(subtitles, max_chars_per_line * lines_per_subtitle))

(***************************************************************************)
(* Translator: batching                                                    *)
(***************************************************************************)
\* TRANSLATION_CONFIG
max_words_per_batch == 500
max_subtitles_per_batch == 50

batch_is_full_before_adding(current_word_count, word_count, current_batch) ==
  /\ \/ current_word_count > max_words_per_batch
     \/ Len(current_batch) >= max_subtitles_per_batch
  /\ current_batch # <<>>

\* lines 840-841
batch_is_full(current_word_count, word_count, current_batch) ==
  /\ \/ current_word_count + word_count > max_words_per_batch
     \/ Len(current_batch) >= max_subtitles_per_batch
  /\ current_batch # <<>>

\* lines 836-848: one iteration; st.batches, st.current_batch and
\* st.current_word_count
batch_step(st, subtitle) ==
  LET word_count == word_count_of(subtitle.text)
  IN  IF batch_is_full(st.current_word_count, word_count, st.current_batch)
      THEN [batches |-> Append(st.batches, st.current_batch),
            current_batch |-> <<subtitle>>,
            current_word_count |-> word_count]
      ELSE [batches |-> st.batches,
            current_batch |-> Append(st.current_batch, subtitle),
            current_word_count |-> st.current_word_count + word_count]

\* the loop of lines 836-848 over subtitles[lo..hi], entered with the
\* variables st; the range is halved and its first half evaluated before the
\* second is entered, so that the evaluation stays shallow
RECURSIVE batch_scan(_, _, _, _)
batch_scan(subtitles, lo, hi, st) ==
  IF lo > hi THEN st
  ELSE IF lo = hi THEN batch_step(st, subtitles[lo])
  ELSE LET first_half == batch_scan(subtitles, lo, (lo + hi) \div 2, st)
       IN  IF first_half.current_word_count >= 0
           THEN batch_scan(subtitles, (lo + hi) \div 2 + 1, hi, first_half)
           ELSE first_half

create_smart_batches(subtitles) ==
  LET st == batch_scan(subtitles, 1, Len(subtitles),
                       [batches |-> <<>>, current_batch |-> <<>>, current_word_count |-> 0])
  IN  IF st.current_batch # <<>> THEN Append(st.batches, st.current_batch)
      ELSE st.batches

(***************************************************************************)
(* Exporter                                                                *)
(***************************************************************************)
Digit == <<"0","1","2","3","4","5","6","7","8","9">>

\* str(n) for n >= 0
RECURSIVE digits(_)
digits(n) == IF n < 10 THEN <<Digit[n + 1]>> ELSE digits(n \div 10) \o <<Digit[(n % 10) + 1]>>

\* f"{n:0{width}d}" for n >= 0
RECURSIVE zero_pad(_, _)
zero_pad(s, width) == IF Len(s) >= width THEN s ELSE zero_pad(<<"0">> \o s, width)

format_d(n, width) == zero_pad(digits(n), width)

\* the three divmod lines shared by the four formatters
hms(ms) ==
  LET s0 == ms \div 1000
      m0 == s0 \div 60
  IN  [h |-> m0 \div 60, m |-> m0 % 60, s |-> s0 % 60, ms |-> ms % 1000]

format_srt_time(ms) ==
  format_d(hms(ms).h, 2) \o <<":">> \o format_d(hms(ms).m, 2) \o <<":">>
    \o format_d(hms(ms).s, 2) \o <<",">> \o format_d(hms(ms).ms, 3)

format_vtt_time(ms) ==
  format_d(hms(ms).h, 2) \o <<":">> \o format_d(hms(ms).m, 2) \o <<":">>
    \o format_d(hms(ms).s, 2) \o <<".">> \o format_d(hms(ms).ms, 3)

format_ass_time_ms_as_cs(ms) ==
  digits(hms(ms).h) \o <<":">> \o format_d(hms(ms).m, 2) \o <<":">>
    \o format_d(hms(ms).s, 2) \o <<".">> \o format_d(hms(ms).ms, 2)

format_ass_time(ms) ==
  digits(hms(ms).h) \o <<":">> \o format_d(hms(ms).m, 2) \o <<":">>
    \o format_d(hms(ms).s, 2) \o <<".">> \o format_d(hms(ms).ms \div 10, 2)

format_txt_time(ms) ==
  format_d(hms(ms).h, 2) \o <<":">> \o format_d(hms(ms).m, 2) \o <<":">>
    \o format_d(hms(ms).s, 2)

\* lines 933-939
write_srt(subtitles) ==
  concat([i \in 1..Len(subtitles) |->
            digits(i) \o <<"\n">>
            \o format_srt_time(subtitles[i].start) \o <<" ","-","-",">"," ">>
            \o format_srt_time(subtitles[i].end) \o <<"\n">>
            \o subtitles[i].text \o <<"\n","\n">>])

\* lines 942-950
write_vtt(subtitles) ==
  <<"W","E","B","V","T","T","\n","\n">>
  \o concat([i \in 1..Len(subtitles) |->
               digits(i) \o <<"\n">>
               \o format_vtt_time(subtitles[i].start) \o <<" ","-","-",">"," ">>
               \o format_vtt_time(subtitles[i].end) \o <<"\n">>
               \o subtitles[i].text \o <<"\n","\n">>])

\* lines 953-964
ass_header ==
  <<"[","S","c","r","i","p","t"," ","I","n","f","o","]","\n">> \o <<"T","i","t","l","e",":"," ","G","e","n","e","r","a","t","e","d"," ","S","u","b","t","i","t","l","e","s","\n">> \o <<"S","c","r","i","p","t","T","y","p","e",":"," ","v","4",".","0","0","+","\n">>
  \o <<"P","l","a","y","R","e","s","X",":"," ","1","2","8","0","\n">> \o <<"P","l","a","y","R","e","s","Y",":"," ","7","2","0","\n","\n">>
  \o <<"[","V","4","+"," ","S","t","y","l","e","s","]","\n">>
  \o <<"F","o","r","m","a","t",":"," ","N","a","m","e",","," ","F","o","n","t","n","a","m","e",","," ","F","o","n","t","s","i","z","e",","," ","P","r","i","m","a","r","y","C","o","l","o","u","r",","," ","S","e","c","o","n","d","a","r","y","C","o","l","o","u","r",","," ","O","u","t","l","i","n","e","C","o","l","o","u","r",","," ","B","a","c","k","C","o","l","o","u","r",","," ","B","o","l","d",","," ","I","t","a","l","i","c",","," ","U","n","d","e","r","l","i","n","e",","," ","S","t","r","i","k","e","O","u","t",","," ","S","c","a","l","e","X",","," ","S","c","a","l","e","Y",","," ","S","p","a","c","i","n","g",","," ","A","n","g","l","e",","," ","B","o","r","d","e","r","S","t","y","l","e",","," ","O","u","t","l","i","n","e",","," ","S","h","a","d","o","w",","," ","A","l","i","g","n","m","e","n","t",","," ","M","a","r","g","i","n","L",","," ","M","a","r","g","i","n","R",","," ","M","a","r","g","i","n","V",","," ","E","n","c","o","d","i","n","g","\n">>
  \o <<"S","t","y","l","e",":"," ","D","e","f","a","u","l","t",",","A","r","i","a","l",",","2","0",",","&","H","0","0","F","F","F","F","F","F",",","&","H","0","0","0","0","0","0","F","F",",","&","H","0","0","0","0","0","0","0","0",",","&","H","0","0","0","0","0","0","0","0",",","0",",","0",",","0",",","0",",","1","0","0",",","1","0","0",",","0",",","0",",","1",",","2",",","2",",","2",",","1","0",",","1","0",",","1","0",",","1","\n","\n">>
  \o <<"[","E","v","e","n","t","s","]","\n">>
  \o <<"F","o","r","m","a","t",":"," ","L","a","y","e","r",","," ","S","t","a","r","t",","," ","E","n","d",","," ","S","t","y","l","e",","," ","N","a","m","e",","," ","M","a","r","g","i","n","L",","," ","M","a","r","g","i","n","R",","," ","M","a","r","g","i","n","V",","," ","E","f","f","e","c","t",","," ","T","e","x","t","\n">>

\* lines 966-970
write_ass(subtitles) ==
  ass_header
  \o concat([i \in 1..Len(subtitles) |->
               <<"D","i","a","l","o","g","u","e",":"," ","0",",">> \o format_ass_time(subtitles[i].start) \o <<",">>
               \o format_ass_time(subtitles[i].end) \o <<",","D","e","f","a","u","l","t",",",",","0",",","0",",","0",",",",">>
               \o subtitles[i].text \o <<"\n">>])

\* lines 973-976
write_txt(subtitles) ==
  concat([i \in 1..Len(subtitles) |->
            <<"[">> \o format_txt_time(subtitles[i].start) \o <<"]"," ">>
            \o subtitles[i].text \o <<"\n">>])

\* lines 918-926: what the with-block writes to the opened file
export_content(subtitles, output_format) ==
  IF output_format = "srt" THEN write_srt(subtitles)
  ELSE IF output_format = "vtt" THEN write_vtt(subtitles)
  ELSE IF output_format = "ass" THEN write_ass(subtitles)
  ELSE IF output_format = "txt" THEN write_txt(subtitles)
  ELSE <<>>

(***************************************************************************)
(* Translator: requests and responses                                      *)
(***************************************************************************)
\* default of make_translation_request's max_retries
max_retries == 3

backoff_seconds_linear(attempt) == 2 * attempt

\* line 879: 2 ** attempt
backoff_seconds(attempt) == 2 ^ attempt

\* lines 788-792: "1. text" lines joined by newlines
batch_text(batch) ==
  concat([i \in 1..Len(batch) |->
            digits(i) \o <<"."," ">> \o batch[i].text
            \o (IF i < Len(batch) THEN <<"\n">> ELSE <<>>)])

\* line 885: the stripped, non-empty lines of the response
translated_lines(translated_text) ==
  LET raw == split_on(translated_text, "\n")
  IN  SelectSeq([i \in 1..Len(raw) |-> str_strip(raw[i])], LAMBDA l : l # <<>>)

parse_entry_number_only(lines, original_sub, i) ==
  LET expected_prefix == digits(i)
      hits == {k \in 1..Len(lines) : str_startswith(lines[k], expected_prefix)}
      translated_line ==
        IF hits = {} THEN <<>>
        ELSE str_strip(SubSeq(lines[Min(hits)], Len(expected_prefix) + 1,
                              Len(lines[Min(hits)])))
  IN  [original_sub EXCEPT
         !.text = IF translated_line # <<>> THEN translated_line ELSE original_sub.text]

\* lines 888-902: the event of entry i (1-based) of the batch
parse_entry(lines, original_sub, i) ==
  LET expected_prefix == digits(i) \o <<".">>
      hits == {k \in 1..Len(lines) : str_startswith(lines[k], expected_prefix)}
      translated_line ==
        IF hits = {} THEN <<>>
        ELSE str_strip(SubSeq(lines[Min(hits)], Len(expected_prefix) + 1,
                              Len(lines[Min(hits)])))
  IN  [original_sub EXCEPT
         !.text = IF translated_line # <<>> THEN translated_line ELSE original_sub.text]

parse_translation_response(translated_text, original_batch) ==
  LET lines == translated_lines(translated_text)
  IN  [i \in 1..Len(original_batch) |-> parse_entry(lines, original_batch[i], i)]

(***************************************************************************)
(* SpeechTranscriber: phrases                                              *)
(***************************************************************************)
merge_word_gap_inclusive(st, word, max_duration_ms) ==
  IF /\ word.start - st.current_phrase.end <= 500
     /\ word.end - st.current_phrase.start < max_duration_ms
  THEN [st EXCEPT !.current_phrase.text = st.current_phrase.text \o <<" ">> \o word.text,
                  !.current_phrase.end = word.end]
  ELSE [merged |-> Append(st.merged, st.current_phrase),
        current_phrase |-> [start |-> word.start, end |-> word.end,
                            text |-> word.text, type |-> "speech"]]

\* lines 625-639: one iteration; st.merged and st.current_phrase
merge_word(st, word, max_duration_ms) ==
  IF /\ word.start - st.current_phrase.end < 500
     /\ word.end - st.current_phrase.start < max_duration_ms
  THEN [st EXCEPT !.current_phrase.text = st.current_phrase.text \o <<" ">> \o word.text,
                  !.current_phrase.end = word.end]
  ELSE [merged |-> Append(st.merged, st.current_phrase),
        current_phrase |-> [start |-> word.start, end |-> word.end,
                            text |-> word.text, type |-> "speech"]]

\* the loop's variables after the words up to the n-th
RECURSIVE merge_words(_, _, _)
merge_words(word_subtitles, n, max_duration_ms) ==
  IF n = 1
  THEN [merged |-> <<>>,
        current_phrase |-> [start |-> word_subtitles[1].start,
                            end |-> word_subtitles[1].end,
                            text |-> word_subtitles[1].text,
                            type |-> "speech"]]
  ELSE merge_word(merge_words(word_subtitles, n - 1, max_duration_ms),
                  word_subtitles[n], max_duration_ms)

merge_consecutive_words(word_subtitles, max_duration_ms) ==
  IF word_subtitles = <<>> THEN <<>>
  ELSE LET st == merge_words(word_subtitles, Len(word_subtitles), max_duration_ms)
       IN  Append(st.merged, st.current_phrase)

(***************************************************************************)
(* SoundEventDetector: the events the two analyzers build from what the    *)
(* classifier and the onset detector report                                *)
(***************************************************************************)
\* lines 391-406: detections are [start, class_name, confidence]
yamnet_event(d, genre) ==
  LET normalized_label == normalize_sound_label(d.class_name)
  IN  IF /\ d.confidence > 25
         /\ normalized_label # <<>>
         /\ should_include_sound(normalized_label, genre)
      THEN <<[start |-> d.start, end |-> d.start + 960,
              text |-> normalized_label, type |-> "sound",
              confidence |-> d.confidence, source |-> "yamnet"]>>
      ELSE <<>>

\* lines 385-408: the loop over the detections
yamnet_events(detections, genre) ==
  concat([i \in 1..Len(detections) |-> yamnet_event(detections[i], genre)])

\* lines 440-453: onsets are [start, sound_type, confidence]
librosa_events(onsets, genre) ==
  LET kept == SelectSeq(onsets, LAMBDA d : should_include_sound(d.sound_type, genre))
  IN  [i \in 1..Len(kept) |->
         [start |-> kept[i].start, end |-> kept[i].start + 1000,
          text |-> kept[i].sound_type, type |-> "sound",
          confidence |-> kept[i].confidence, source |-> "librosa"]]

analyze_with_yamnet_uncaught(detections, genre, raises) ==
  yamnet_events(detections, genre)

\* lines 343-410: whatever raises inside is caught and the analyzer returns []
analyze_with_yamnet(detections, genre, raises) ==
  IF raises THEN <<>> ELSE yamnet_events(detections, genre)

\* lines 412-471
analyze_with_librosa(onsets, genre, raises) ==
  IF raises THEN <<>> ELSE librosa_events(onsets, genre)

\* lines 275-318: the transcript's words merged into phrases, [] when the
\* transcription raises
generate_speech_subtitles(words, raises) ==
  IF raises THEN <<>>
  ELSE IF words # <<>> THEN merge_consecutive_words(words, 3000) ELSE <<>>

\* lines 320-341: raised names the analyzers that raise
generate_sound_subtitles(detections, onsets, genre, raised) ==
  combine_sound_events(analyze_with_yamnet(detections, genre, "yamnet" \in raised),
                       analyze_with_librosa(onsets, genre, "librosa" \in raised),
                       genre)

(***************************************************************************)
(* Genre filter and priority of one label (SpecGenre)                      *)
(***************************************************************************)
InitGenre ==
  /\ args \in [sound_label : SoundLabels, genre : Genres]
  /\ ret = <<>>
  /\ called = FALSE
  /\ PipelineIdle
  /\ OrderIdle

CallGenre ==
  /\ ~called
  /\ called' = TRUE
  /\ ret' = [include |-> should_include_sound(args.sound_label, args.genre),
             priority |-> get_sound_priority(args.sound_label, args.genre)]
  /\ UNCHANGED <<args, pipeline, order>>

NextGenre == CallGenre

SpecGenre == InitGenre /\ [][NextGenre]_vars

\* the category the taxonomy gives a label: the first category one of whose
\* patterns occurs in the lower-cased label without its brackets
CategoryOf(label) ==
  LET bare == SelectSeq(str_lower(label), LAMBDA c : c \notin {"[", "]"})
      Matches(i) == \E k \in 1..Len(SOUND_LABEL_PATTERNS[i].patterns) :
                      str_contains(SOUND_LABEL_PATTERNS[i].patterns[k], bare)
  IN  IF \E i \in 1..Len(SOUND_LABEL_PATTERNS) : Matches(i)
      THEN SOUND_LABEL_PATTERNS[CHOOSE i \in 1..Len(SOUND_LABEL_PATTERNS) :
                                  Matches(i) /\ \A j \in 1..(i - 1) : ~Matches(j)].key
      ELSE "unknown"

\* C7: a label is included iff the genre is not a key of the genre table, or
\* its category is not blocked and the allowed list is empty or holds it;
\* under horror "[Laughter]" is excluded and "[Scream]" is included.
C7_ShouldInclude ==
  called =>
    /\ ret.include =
         ( \/ args.genre \notin DOMAIN GENRE_FILTERS
           \/ /\ CategoryOf(args.sound_label) \notin Range(GENRE_FILTERS[args.genre].blocked)
              /\ \/ GENRE_FILTERS[args.genre].allowed = <<>>
                 \/ CategoryOf(args.sound_label) \in Range(GENRE_FILTERS[args.genre].allowed) )
    /\ (args.genre = "horror" /\ args.sound_label = <<"[","L","a","u","g","h","t","e","r","]">>) => ~ret.include
    /\ (args.genre = "horror" /\ args.sound_label = <<"[","S","c","r","e","a","m","]">>) => ret.include

C7_Witness ==
  /\ called
  /\ args.genre = "horror"
  /\ args.sound_label = <<"[","L","a","u","g","h","t","e","r","]">>
  /\ ~ret.include

PriorityAsClaimed(label, genre) ==
  IF genre \notin DOMAIN GENRE_FILTERS THEN 0
  ELSE IF CategoryOf(label) \in Range(GENRE_FILTERS[genre].priority)
       THEN list_index(GENRE_FILTERS[genre].priority, CategoryOf(label)) + 10
       ELSE 1

\* C8 as stated: the priority is index + 10 when the category is in the genre's
\* priority list, else 1 when the genre is known, else 0, for every label.
C8_PriorityAsStated ==
  called => ret.priority = PriorityAsClaimed(args.sound_label, args.genre)

\* C8 amended: as stated for a label that matches a taxonomy category; a label
\* that matches none scores 0 under every genre.
C8_Priority ==
  called =>
    /\ CategoryOf(args.sound_label) # "unknown"
         => ret.priority = PriorityAsClaimed(args.sound_label, args.genre)
    /\ CategoryOf(args.sound_label) = "unknown" => ret.priority = 0
    /\ (args.genre = "horror" /\ args.sound_label = <<"[","S","c","r","e","a","m","]">>) => ret.priority = 10

C8_Witness ==
  /\ called
  /\ args.genre = "horror"
  /\ CategoryOf(args.sound_label) = "unknown"
  /\ ret.priority = 0

\* C29 as stated: when the label passed in is the display label of a
\* category of the taxonomy, the category extract_sound_key derives from it,
\* under which it is filtered and prioritized, is that category.
C29_LabelRoundTrip ==
  called =>
    \A i \in 1..Len(SOUND_LABEL_PATTERNS) :
      args.sound_label = format_sound_label(SOUND_LABEL_PATTERNS[i].key, <<>>) =>
        extract_sound_key(args.sound_label) = SOUND_LABEL_PATTERNS[i].key

(***************************************************************************)
(* Bounded inputs                                                          *)
(***************************************************************************)
SeqsUpTo(S, n) == UNION {[1..k -> S] : k \in 0..n}

Count(l, x) == Cardinality({i \in 1..Len(l) : l[i] = x})

IsSortedByStart(l) == \A i \in 1..(Len(l) - 1) : l[i].start <= l[i + 1].start

SpeechEvent(s, e, t) == [start |-> s, end |-> e, text |-> t, type |-> "speech"]

\* a word of the transcript (lines 309-314)
Word(s, e, t) == [start |-> s, end |-> e, text |-> t, type |-> "speech"]

SoundEvent(s, e, t, c, p) ==
  [start |-> s, end |-> e, text |-> t, type |-> "sound",
   confidence |-> c, source |-> "yamnet", priority |-> p]

(***************************************************************************)
(* deduplicate_sound_events on one list (SpecDedup)                        *)
(***************************************************************************)
MaxDedupEvents == 3

DedupStarts == {0, 1000, 1500, 2500}

\* (priority, confidence)
DedupRanks == {<<1, 50>>, <<1, 80>>, <<10, 50>>}

\* one label at every start and rank, a second label at two starts
DedupEvents ==
  {SoundEvent(s, s + 960, <<"[","D","o","o","r"," ","s","l","a","m","]">>, r[2], r[1]) :
     s \in DedupStarts, r \in DedupRanks}
  \cup
  {SoundEvent(s, s + 960, <<"[","T","h","u","n","d","e","r","]">>, 50, p) : s \in {0, 1000}, p \in {1, 10}}

InitDedup ==
  /\ args \in [events : SeqsUpTo(DedupEvents, MaxDedupEvents)]
  /\ ret = <<>>
  /\ called = FALSE
  /\ PipelineIdle
  /\ OrderIdle

CallDedup ==
  /\ ~called
  /\ called' = TRUE
  /\ ret' = deduplicate_sound_events(args.events)
  /\ UNCHANGED <<args, pipeline, order>>

NextDedup == CallDedup

SpecDedup == InitDedup /\ [][NextDedup]_vars

\* C2: deduplication is idempotent: deduplicating the list the function
\* returned gives that list again, in the same order.
C2_DedupIdempotent ==
  called => deduplicate_sound_events(ret) = ret

\* a candidate replaced an accepted event and another one was discarded
C2_Witness ==
  /\ called
  /\ Len(args.events) = 3
  /\ Len(ret) = 1
  /\ ret[1] # sort_for_dedup(args.events)[1]

\* the two events show the same label less than 1500 ms apart
Matches(e1, e2) == e1.text = e2.text /\ abs(e1.start - e2.start) < 1500

\* e1 has the higher priority, or the same priority and the higher confidence
Outranks(e1, e2) ==
  \/ e1.priority > e2.priority
  \/ e1.priority = e2.priority /\ e1.confidence > e2.confidence

\* C24: the result holds no event more often than the list passed in, is
\* sorted by start, and holds no two events of one label less than 1500 ms
\* apart; an event that is missing from it matched an event of the input that
\* it does not outrank; and of two matching events passed in alone the one
\* that outranks the other is kept, the one scanned first (the earlier, or at
\* one start the first passed in) when neither does.
C24_DedupResult ==
  called =>
    /\ \A e \in Range(ret) : Count(ret, e) <= Count(args.events, e)
    /\ IsSortedByStart(ret)
    /\ \A i, j \in 1..Len(ret) : i # j => ~Matches(ret[i], ret[j])
    /\ \A i \in 1..Len(args.events) :
         Count(ret, args.events[i]) < Count(args.events, args.events[i]) =>
           \E j \in 1..Len(args.events) :
             /\ j # i
             /\ Matches(args.events[i], args.events[j])
             /\ ~Outranks(args.events[i], args.events[j])
    /\ (Len(args.events) = 2 /\ Matches(args.events[1], args.events[2])) =>
         LET e1 == args.events[1]
             e2 == args.events[2]
         IN  ret = IF Outranks(e1, e2) THEN <<e1>>
                   ELSE IF Outranks(e2, e1) THEN <<e2>>
                   ELSE IF e2.start < e1.start THEN <<e2>>
                   ELSE <<e1>>

\* a later event of higher priority replaces the accepted one, and a third
\* event 1500 ms after it is accepted beside it
C24_Witness ==
  /\ called
  /\ args.events = <<SoundEvent(0, 960, <<"[","D","o","o","r"," ","s","l","a","m","]">>, 80, 1),
                     SoundEvent(1000, 1960, <<"[","D","o","o","r"," ","s","l","a","m","]">>, 50, 10),
                     SoundEvent(2500, 3460, <<"[","D","o","o","r"," ","s","l","a","m","]">>, 50, 1)>>
  /\ ret = <<SoundEvent(1000, 1960, <<"[","D","o","o","r"," ","s","l","a","m","]">>, 50, 10),
             SoundEvent(2500, 3460, <<"[","D","o","o","r"," ","s","l","a","m","]">>, 50, 1)>>

(***************************************************************************)
(* merge_subtitles on one pair of tracks (SpecMerge)                       *)
(***************************************************************************)
MaxTrackEvents == 2

MergeSpeech ==
  {SpeechEvent(900, 1500, <<"H","e","l","l","o"," ","w","o","r","l","d">>), SpeechEvent(0, 500, <<"H","i">>),
   SpeechEvent(2200, 2500, <<"B","y","e">>)}

MergeSound ==
  {SoundEvent(1000, 1200, <<"[","D","o","o","r"," ","s","l","a","m","]">>, 80, 13),
   SoundEvent(2000, 2200, <<"[","D","o","o","r"," ","s","l","a","m","]">>, 80, 13),
   SoundEvent(1500, 1800, <<"[","T","h","u","n","d","e","r","]">>, 50, 11),
   SoundEvent(600, 800, <<"[","T","h","u","n","d","e","r","]">>, 50, 11)}

InitMerge ==
  /\ args \in [speech : SeqsUpTo(MergeSpeech, MaxTrackEvents),
               sound : SeqsUpTo(MergeSound, MaxTrackEvents),
               accessibility_mode : BOOLEAN,
               non_verbal_only_mode : BOOLEAN]
  /\ ret = <<>>
  /\ called = FALSE
  /\ PipelineIdle
  /\ OrderIdle

CallMerge ==
  /\ ~called
  /\ called' = TRUE
  /\ ret' = merge_subtitles(args.speech, args.sound,
                            args.accessibility_mode, args.non_verbal_only_mode)
  /\ UNCHANGED <<args, pipeline, order>>

NextMerge == CallMerge

SpecMerge == InitMerge /\ [][NextMerge]_vars

\* the closed intervals [a.start, a.end] and [b.start, b.end] share a point
Intersects(a, b) == (a.start..a.end) \cap (b.start..b.end) # {}

\* C6: in default mode every speech event is kept, and a sound event is kept
\* iff its closed interval meets no speech event's closed interval.
C6_DefaultMerge ==
  (called /\ ~args.accessibility_mode /\ ~args.non_verbal_only_mode) =>
    /\ \A e \in Range(args.speech) :
         Count(ret, e) = Count(args.speech, e)
    /\ \A e \in Range(args.sound) :
         Count(ret, e) =
           IF \E s \in Range(args.speech) : Intersects(e, s)
           THEN 0 ELSE Count(args.sound, e)
    /\ Range(ret) \subseteq Range(args.speech) \cup Range(args.sound)

\* the example of the specification, and a sound that only touches a speech end
C6_Witness ==
  /\ called /\ ~args.accessibility_mode /\ ~args.non_verbal_only_mode
  /\ SpeechEvent(900, 1500, <<"H","e","l","l","o"," ","w","o","r","l","d">>) \in Range(args.speech)
  /\ SoundEvent(1500, 1800, <<"[","T","h","u","n","d","e","r","]">>, 50, 11) \in Range(args.sound)
  /\ SoundEvent(2000, 2200, <<"[","D","o","o","r"," ","s","l","a","m","]">>, 80, 13) \in Range(args.sound)
  /\ SoundEvent(1500, 1800, <<"[","T","h","u","n","d","e","r","]">>, 50, 11) \notin Range(ret)
  /\ SoundEvent(2000, 2200, <<"[","D","o","o","r"," ","s","l","a","m","]">>, 80, 13) \in Range(ret)

\* C18: with non_verbal_only_mode the result is the sound events, each as
\* often as given, sorted by start, whatever accessibility_mode is; otherwise
\* with accessibility_mode it is the speech and the sound events together,
\* each as often as given, sorted by start.
C18_MergeModes ==
  called =>
    /\ args.non_verbal_only_mode =>
         /\ IsSortedByStart(ret)
         /\ Len(ret) = Len(args.sound)
         /\ \A e \in Range(args.sound) : Count(ret, e) = Count(args.sound, e)
    /\ (~args.non_verbal_only_mode /\ args.accessibility_mode) =>
         /\ IsSortedByStart(ret)
         /\ Len(ret) = Len(args.speech) + Len(args.sound)
         /\ \A e \in Range(args.speech) \cup Range(args.sound) :
              Count(ret, e) = Count(args.speech, e) + Count(args.sound, e)

\* both flags set, speech given, and the sounds given out of order
C18_Witness ==
  /\ called /\ args.non_verbal_only_mode /\ args.accessibility_mode
  /\ args.speech = <<SpeechEvent(900, 1500, <<"H","e","l","l","o"," ","w","o","r","l","d">>)>>
  /\ args.sound = <<SoundEvent(1500, 1800, <<"[","T","h","u","n","d","e","r","]">>, 50, 11),
                    SoundEvent(1000, 1200, <<"[","D","o","o","r"," ","s","l","a","m","]">>, 80, 13)>>
  /\ ret = <<SoundEvent(1000, 1200, <<"[","D","o","o","r"," ","s","l","a","m","]">>, 80, 13),
             SoundEvent(1500, 1800, <<"[","T","h","u","n","d","e","r","]">>, 50, 11)>>

(***************************************************************************)
(* format_subtitles on one list (SpecFormat)                               *)
(***************************************************************************)
MaxTextLen == 5
MaxCharsPerLine == 3

FormatTexts == SeqsUpTo({"a", "b", " "}, MaxTextLen)

\* the speech event under test, alone, after a sound event, or before a
\* second speech event
FormatLists ==
  UNION {{ <<SpeechEvent(1000, e, t)>>,
           <<SoundEvent(500, 1460, <<"[","D","o","o","r"," ","s","l","a","m","]">>, 80, 13), SpeechEvent(1000, e, t)>>,
           <<SpeechEvent(1000, e, t), SpeechEvent(1001, 1500, <<"H","e","l","l","o"," ","w","o","r","l","d">>)>> } :
         e \in {1003, 2000}, t \in FormatTexts}

InitFormat ==
  /\ args \in [subtitles : FormatLists,
               max_chars_per_line : 1..MaxCharsPerLine,
               lines_per_subtitle : {1, 2}]
  /\ ret = <<>>
  /\ called = FALSE
  /\ PipelineIdle
  /\ OrderIdle

CallFormat ==
  /\ ~called
  /\ called' = TRUE
  /\ ret' = format_subtitles(args.subtitles, args.max_chars_per_line,
                             args.lines_per_subtitle)
  /\ UNCHANGED <<args, pipeline, order>>

NextFormat == CallFormat

SpecFormat == InitFormat /\ [][NextFormat]_vars

MaxChars == args.max_chars_per_line * args.lines_per_subtitle

IsOneWord(text) == text # <<>> /\ \A i \in 1..Len(text) : text[i] \notin Whitespace

\* C3: no speech event of the formatted list is longer than
\* max_chars_per_line * lines_per_subtitle, unless it was split off as exactly
\* one word that is itself longer than the limit.
C3_ChunkWithinLimit ==
  called =>
    \A i \in 1..Len(ret) :
      ret[i].type = "speech" =>
        \/ Len(ret[i].text) <= MaxChars
        \/ IsOneWord(ret[i].text)

\* a split that emits a chunk within the limit and, whole, a single word
\* longer than the limit
C3_Witness ==
  /\ called
  /\ \E i, j \in 1..Len(ret) :
       /\ ret[i].type = "speech" /\ ret[i] \notin Range(args.subtitles)
       /\ IsOneWord(ret[i].text) /\ Len(ret[i].text) > MaxChars
       /\ ret[j].type = "speech" /\ ret[j] \notin Range(args.subtitles)
       /\ Len(ret[j].text) <= MaxChars
       /\ ret[j].end = ret[i].start

RECURSIVE WordsOf(_)
WordsOf(events) ==
  IF events = <<>> THEN <<>>
  ELSE str_split(events[1].text) \o WordsOf(Tail(events))

\* C4 as stated: the words of the chunks emitted for a speech event, in chunk
\* order, are the words of its text in their order.
C4_NoTextLost ==
  (called /\ Len(args.subtitles) = 1) =>
    WordsOf(ret) = str_split(args.subtitles[1].text)

\* C17 as stated: when every event passed in has 0 <= start < end, so has
\* every event of the formatted list.
C17_StartBeforeEnd ==
  (called /\ \A e \in Range(args.subtitles) : 0 <= e.start /\ e.start < e.end) =>
    \A e \in Range(ret) : 0 <= e.start /\ e.start < e.end

\* the speech events and the sound events of a list, in its order
SpeechOf(events) == SelectSeq(events, LAMBDA e : e.type = "speech")

SoundOf(events) == SelectSeq(events, LAMBDA e : e.type = "sound")

\* x * c / n truncated, or rounded to the nearest integer
IsShare(d, x, c, n) ==
  \/ d = (x * c) \div n
  \/ d = (2 * x * c + n) \div (2 * n)

\* C22 as stated: when the one speech event passed in is split, every chunk
\* but the last lasts the event's duration before the split times the chunk's
\* length over the text's length, as an integer, and the next chunk starts
\* where it ends.
C22_SameBase ==
  (called /\ Len(SpeechOf(args.subtitles)) = 1
          /\ Len(SpeechOf(args.subtitles)[1].text) > MaxChars) =>
    LET sub == SpeechOf(args.subtitles)[1]
        chunks == SpeechOf(ret)
    IN  \A i \in 1..(Len(chunks) - 1) :
          /\ IsShare(chunks[i].end - chunks[i].start, sub.end - sub.start,
                     Len(chunks[i].text), Len(sub.text))
          /\ chunks[i + 1].start = chunks[i].end

MaxRuns == 2

\* a text of n one-letter words
TextOfWords(n) == [i \in 1..(2 * n - 1) |-> IF i % 2 = 1 THEN "a" ELSE " "]

\* <<number of events, words in each>>
RunShapes ==
  {<<1, 501>>, <<1, 250>>, <<2, 250>>, <<3, 200>>, <<1, 1>>, <<49, 1>>, <<50, 1>>,
   <<51, 0>>}

RECURSIVE EventsOfRuns(_, _)
EventsOfRuns(runs, first) ==
  IF runs = <<>> THEN <<>>
  ELSE [j \in 1..runs[1][1] |->
          SpeechEvent((first + j) * 10, (first + j) * 10 + 9, TextOfWords(runs[1][2]))]
       \o EventsOfRuns(Tail(runs), first + runs[1][1])

InitBatch ==
  /\ \E runs \in SeqsUpTo(RunShapes, MaxRuns) :
       args = [subtitles |-> EventsOfRuns(runs, 0)]
  /\ ret = <<>>
  /\ called = FALSE
  /\ PipelineIdle
  /\ OrderIdle

CallBatch ==
  /\ ~called
  /\ called' = TRUE
  /\ ret' = create_smart_batches(args.subtitles)
  /\ UNCHANGED <<args, pipeline, order>>

NextBatch == CallBatch

SpecBatch == InitBatch /\ [][NextBatch]_vars

\* the number of words of a text: the places where a word ends
WordsIn(text) ==
  Cardinality({i \in 1..Len(text) :
                 text[i] # " " /\ (i = Len(text) \/ text[i + 1] = " ")})

WordsInAll(events) ==
  Cardinality({p \in UNION {{<<i, k>> : k \in 1..Len(events[i].text)} : i \in 1..Len(events)} :
                 /\ events[p[1]].text[p[2]] # " "
                 /\ \/ p[2] = Len(events[p[1]].text)
                    \/ events[p[1]].text[p[2] + 1] = " "})

\* C9 as stated: every batch holds at most 50 events and at most 500 words, so
\* a list of 501 or more words gives at least 2 batches.
C9_BatchesBoundedAsStated ==
  called =>
    /\ \A b \in 1..Len(ret) : Len(ret[b]) <= 50 /\ WordsInAll(ret[b]) <= 500
    /\ WordsInAll(args.subtitles) >= 501 => Len(ret) >= 2

\* C9 amended: every batch holds at most 50 events, and at most 500 words
\* unless it is a single event that alone has more than 500 words; a list of
\* 501 or more words none of whose events has more than 500 gives at least 2
\* batches of at most 500 words each.
C9_BatchesBounded ==
  called =>
    /\ \A b \in 1..Len(ret) :
         /\ 1 <= Len(ret[b]) /\ Len(ret[b]) <= 50
         /\ WordsInAll(ret[b]) <= 500 \/ Len(ret[b]) = 1
    /\ ( /\ WordsInAll(args.subtitles) >= 501
         /\ \A i \in 1..Len(args.subtitles) : WordsIn(args.subtitles[i].text) <= 500 )
       => /\ Len(ret) >= 2
          /\ \A b \in 1..Len(ret) : WordsInAll(ret[b]) <= 500

\* 501 words over three events: two batches, each within the limit
C9_Witness ==
  /\ called
  /\ Len(args.subtitles) = 3
  /\ WordsInAll(args.subtitles) = 501
  /\ Len(ret) = 2
  /\ WordsInAll(ret[1]) = 500

(***************************************************************************)
(* export_subtitles on one list (SpecExport), and the readers of the four  *)
(* grammars                                                                *)
(***************************************************************************)
MaxExportEvents == 2

ExportTimes == {<<0, 5>>, <<999, 1000>>, <<61001, 3599999>>, <<3600000, 360000010>>}

ExportTexts == { <<"H","i">>, <<"[","D","o","o","r"," ","s","l","a","m","]">>, <<"a",","," ","b">> }

ExportEvents == {SpeechEvent(p[1], p[2], t) : p \in ExportTimes, t \in ExportTexts}

OutputFormats == {"srt", "vtt", "ass", "txt"}

InitExport ==
  /\ args \in [subtitles : SeqsUpTo(ExportEvents, MaxExportEvents),
               output_format : OutputFormats]
  /\ ret = <<>>
  /\ called = FALSE
  /\ PipelineIdle
  /\ OrderIdle

CallExport ==
  /\ ~called
  /\ called' = TRUE
  /\ ret' = export_content(args.subtitles, args.output_format)
  /\ UNCHANGED <<args, pipeline, order>>

NextExport == CallExport

SpecExport == InitExport /\ [][NextExport]_vars

\* int(s) for a string of decimal digits
RECURSIVE to_int(_)
to_int(s) ==
  IF s = <<>> THEN 0
  ELSE 10 * to_int(SubSeq(s, 1, Len(s) - 1))
       + (CHOOSE d \in 0..9 : Digit[d + 1] = s[Len(s)])

\* the milliseconds of H:MM:SS<sep>fraction; unit is the milliseconds of one
\* unit of the fraction field
parse_clock(s, sep, unit) ==
  LET parts == split_on(s, ":")
      last == split_on(parts[3], sep)
  IN  ((to_int(parts[1]) * 60 + to_int(parts[2])) * 60 + to_int(last[1])) * 1000
      + (IF Len(last) > 1 THEN to_int(last[2]) * unit ELSE 0)

NoTime == -1

\* blocks of index line, "start --> end" line, text line, blank line
RECURSIVE parse_blocks(_, _, _)
parse_blocks(lines, i, sep) ==
  IF i + 2 > Len(lines) \/ lines[i] = <<>> THEN <<>>
  ELSE LET times == split_on(lines[i + 1], " ")
       IN  <<[start |-> parse_clock(times[1], sep, 1),
              end |-> parse_clock(times[3], sep, 1),
              text |-> lines[i + 2]]>>
           \o parse_blocks(lines, i + 4, sep)

parse_srt_file(content) == parse_blocks(split_on(content, "\n"), 1, ",")

parse_vtt_file(content) == parse_blocks(split_on(content, "\n"), 3, ".")

\* the text of a Dialogue line: what follows its ninth comma
RECURSIVE after_commas(_, _)
after_commas(s, n) ==
  IF n = 0 THEN s
  ELSE after_commas(SubSeq(s, (CHOOSE i \in 1..Len(s) :
                                 s[i] = "," /\ \A j \in 1..(i - 1) : s[j] # ",") + 1,
                           Len(s)), n - 1)

parse_ass_file(content) ==
  LET lines == SelectSeq(split_on(content, "\n"),
                         LAMBDA l : str_startswith(l, <<"D","i","a","l","o","g","u","e",":"," ">>))
  IN  [i \in 1..Len(lines) |->
         [start |-> parse_clock(split_on(lines[i], ",")[2], ".", 10),
          end |-> parse_clock(split_on(lines[i], ",")[3], ".", 10),
          text |-> after_commas(lines[i], 9)]]

\* "[HH:MM:SS] text" lines; the grammar has no end time
parse_txt_file(content) ==
  LET lines == SelectSeq(split_on(content, "\n"), LAMBDA l : l # <<>>)
      close(l) == CHOOSE i \in 1..Len(l) : l[i] = "]" /\ \A j \in 1..(i - 1) : l[j] # "]"
  IN  [i \in 1..Len(lines) |->
         [start |-> parse_clock(SubSeq(lines[i], 2, close(lines[i]) - 1), ".", 0),
          end |-> NoTime,
          text |-> SubSeq(lines[i], close(lines[i]) + 2, Len(lines[i]))]]

parse_file(content, output_format) ==
  IF output_format = "srt" THEN parse_srt_file(content)
  ELSE IF output_format = "vtt" THEN parse_vtt_file(content)
  ELSE IF output_format = "ass" THEN parse_ass_file(content)
  ELSE parse_txt_file(content)

\* the milliseconds of one unit of the finest field a format writes
Resolution(output_format) ==
  IF output_format = "ass" THEN 10 ELSE IF output_format = "txt" THEN 1000 ELSE 1

Truncated(ms, output_format) ==
  (ms \div Resolution(output_format)) * Resolution(output_format)

MaxWords == 3

\* word times around the two thresholds: a gap of 50, 499 and 500 ms after a
\* word that ends at 900, and a phrase from 0 that would span 2999 or 3000 ms
WordTimes == {<<0, 400>>, <<450, 900>>, <<1399, 2999>>, <<1399, 3000>>, <<1400, 2000>>}

TranscriptWords ==
  {Word(p[1], p[2], t) : p \in WordTimes, t \in { <<"H","e","l","l","o">>, <<"w","o","r","l","d">> }}

\* the transcriber reports the words in the order they are spoken
InitWords ==
  /\ args \in [word_subtitles : {l \in SeqsUpTo(TranscriptWords, MaxWords) :
                                    IsSortedByStart(l)}]
  /\ ret = <<>>
  /\ called = FALSE
  /\ PipelineIdle
  /\ OrderIdle

CallWords ==
  /\ ~called
  /\ called' = TRUE
  /\ ret' = merge_consecutive_words(args.word_subtitles, 3000)
  /\ UNCHANGED <<args, pipeline, order>>

NextWords == CallWords

SpecWords == InitWords /\ [][NextWords]_vars

\* the index of the first and of the last word of phrase k, every word being
\* one token
FirstWord(phrases, k) == Len(WordsOf(SubSeq(phrases, 1, k - 1))) + 1

LastWord(phrases, k) == Len(WordsOf(SubSeq(phrases, 1, k)))

\* the word may join the phrase that began with the word `first` and so far
\* ends with the word before it
MayJoin(words, first, i) ==
  /\ words[i].start - words[i - 1].end < 500
  /\ words[i].end - words[first].start < 3000

\* C20: the phrases hold the words, each once and in order; a phrase starts
\* with its first word, ends with its last and joins the texts with single
\* spaces; a word continues the phrase exactly when it begins less than
\* 500 ms after the phrase's end and ends less than 3000 ms after the phrase's
\* start, otherwise it opens the next phrase; a phrase of several words spans
\* less than 3000 ms; and the example yields the single phrase given.
C20_MergeWords ==
  called =>
    LET words == args.word_subtitles
    IN  /\ WordsOf(ret) = [i \in 1..Len(words) |-> words[i].text]
        /\ \A k \in 1..Len(ret) :
             LET first == FirstWord(ret, k)
                 last == LastWord(ret, k)
             IN  /\ first <= last
                 /\ ret[k] = [start |-> words[first].start,
                              end |-> words[last].end,
                              text |-> join_space([i \in 1..(last - first + 1) |->
                                                     words[first + i - 1].text]),
                              type |-> "speech"]
                 /\ \A i \in (first + 1)..last : MayJoin(words, first, i)
                 /\ k > 1 => ~MayJoin(words, FirstWord(ret, k - 1), first)
                 /\ first < last => ret[k].end - ret[k].start < 3000
        /\ words = <<Word(0, 400, <<"H","e","l","l","o">>), Word(450, 900, <<"w","o","r","l","d">>)>> =>
             ret = <<SpeechEvent(0, 900, <<"H","e","l","l","o"," ","w","o","r","l","d">>)>>

\* a word 499 ms after the phrase joins it and brings it to 2999 ms
C20_Witness ==
  /\ called
  /\ args.word_subtitles = <<Word(0, 400, <<"H","e","l","l","o">>), Word(450, 900, <<"w","o","r","l","d">>),
                             Word(1399, 2999, <<"w","o","r","l","d">>)>>
  /\ ret = <<SpeechEvent(0, 2999, <<"H","e","l","l","o"," ","w","o","r","l","d"," ","w","o","r","l","d">>)>>

(***************************************************************************)
(* parse_translation_response on one response (SpecParse)                  *)
(***************************************************************************)
MaxLines == 3

\* lines a response may hold: numbered for entry 1, 2, 10 and 12, indented,
\* without text after the number, blank, and not numbered at all
ResponseLines ==
  { <<"1","."," ","U","n">>, <<"2","."," ","D","e","u","x">>, <<"1","0","."," ","D","i","x">>, <<"1","2","."," ","D","o","u","z","e">>, <<" "," ","1","."," "," ","U","n"," ","b","i","s"," ">>, <<"1",".">>, <<"2","."," ">>,
    <<>>, <<" ">>, <<"V","o","i","c","i">> }

RECURSIVE join_lines(_)
join_lines(lines) ==
  IF lines = <<>> THEN <<>>
  ELSE IF Len(lines) = 1 THEN lines[1]
  ELSE lines[1] \o <<"\n">> \o join_lines(Tail(lines))

\* a batch of n speech events
BatchOf(n) == [i \in 1..n |-> SpeechEvent(1000 * i, 1000 * i + 500, <<"o">> \o digits(i))]

InitParse ==
  /\ args \in [translated_text : {join_lines(l) : l \in SeqsUpTo(ResponseLines, MaxLines)},
                original_batch : {BatchOf(1), BatchOf(2), BatchOf(10)}]
  /\ ret = <<>>
  /\ called = FALSE
  /\ PipelineIdle
  /\ OrderIdle

CallParse ==
  /\ ~called
  /\ called' = TRUE
  /\ ret' = parse_translation_response(args.translated_text, args.original_batch)
  /\ UNCHANGED <<args, pipeline, order>>

NextParse == CallParse

SpecParse == InitParse /\ [][NextParse]_vars

\* the response lines without surrounding blanks
StrippedLines(text) ==
  [k \in 1..Len(split_on(text, "\n")) |-> str_strip(split_on(text, "\n")[k])]

\* the line is numbered for entry i
NumberedFor(line, i) == str_startswith(line, digits(i) \o <<".">>)

\* what follows the number of entry i on the line, without surrounding blanks
Remainder(line, i) == str_strip(SubSeq(line, Len(digits(i)) + 2, Len(line)))

\* C25: the result has one event per event of the batch, in its order, equal
\* to it but for the text; the text of entry i is what follows "i." on the
\* first non-empty line that starts with "i.", surrounding blanks removed, and
\* the original text when there is no such line or nothing follows; and a
\* text that was replaced comes from a line numbered for no other entry.
C25_ParseByNumber ==
  called =>
    LET lines == StrippedLines(args.translated_text)
        batch == args.original_batch
    IN  /\ Len(ret) = Len(batch)
        /\ \A i \in 1..Len(batch) :
             LET hits == {k \in 1..Len(lines) : lines[k] # <<>> /\ NumberedFor(lines[k], i)}
             IN  /\ ret[i] = [batch[i] EXCEPT !.text = ret[i].text]
                 /\ hits = {} => ret[i].text = batch[i].text
                 /\ hits # {} =>
                      LET first == CHOOSE k \in hits : \A h \in hits : k <= h
                      IN  /\ ret[i].text = IF Remainder(lines[first], i) # <<>>
                                           THEN Remainder(lines[first], i)
                                           ELSE batch[i].text
                          /\ \A j \in 1..12 : j # i => ~NumberedFor(lines[first], j)

\* entry 1 passes over the line numbered 10 and takes the indented line
\* numbered 1; entry 2 has no line and entry 10 takes its own
C25_Witness ==
  /\ called
  /\ args.translated_text = <<"1","0","."," ","D","i","x","\n"," "," ","1","."," "," ","U","n"," ","b","i","s"," ","\n","V","o","i","c","i">>
  /\ Len(args.original_batch) = 10
  /\ ret[1].text = <<"U","n"," ","b","i","s">>
  /\ ret[2].text = <<"o","2">>
  /\ ret[10].text = <<"D","i","x">>

(***************************************************************************)
(* generate_subtitles for one video (Spec)                                 *)
(***************************************************************************)
\* what the transcriber returns
WordLists ==
  { <<>>,
    <<Word(0, 400, <<"H","e","l","l","o">>), Word(450, 900, <<"w","o","r","l","d">>)>>,
    <<Word(1000, 1400, <<"a","a">>), Word(1500, 2000, <<"b","b","b">>), Word(2600, 2900, <<"c","c">>)>> }

Detection(s, n, c) == [start |-> s, class_name |-> n, confidence |-> c]

\* what the classifier reports: nothing, or a few frames
YamnetDetections ==
  { <<>>,
    <<Detection(1200, <<"D","o","o","r">>, 80), Detection(1680, <<"D","o","o","r">>, 60),
      Detection(0, <<"L","a","u","g","h","t","e","r">>, 90), Detection(3000, <<"S","c","r","e","a","m","i","n","g">>, 70),
      Detection(3480, <<"S","i","l","e","n","c","e">>, 20)>> }

Onset(s, n, c) == [start |-> s, sound_type |-> n, confidence |-> c]

LibrosaOnsets ==
  { <<>>,
    <<Onset(1250, <<"[","D","o","o","r"," ","s","l","a","m","]">>, 50), Onset(3100, <<"[","T","h","u","n","d","e","r","]">>, 90)>> }

\* the translator before translate_subtitles is called
NoTranslation ==
  [queue |-> <<>>, batch_idx |-> 0, attempt |-> 0, phase |-> "idle",
   log |-> <<>>, out |-> <<>>, all |-> <<>>, last |-> <<>>, done |-> <<>>]

Configs ==
  [source_language : {"en"},
   target_language : {None, "", "en", "fr"},
   max_chars_per_line : {2, 42},
   lines_per_subtitle : {2},
   accessibility_mode : BOOLEAN,
   non_verbal_only_mode : BOOLEAN,
   non_verbal : BOOLEAN,
   genre : {"horror", None},
   output_format : OutputFormats]

Init ==
  /\ pc = "start"
  /\ failed = {}
  /\ config \in Configs
  /\ api_key \in BOOLEAN
  /\ ~api_key => config.target_language = "fr"
  /\ (api_key /\ config.target_language = "fr")
       => (config.genre = "horror" /\ config.output_format = "srt")
  /\ speech_subtitles = <<>>
  /\ sound_subtitles = <<>>
  /\ merged_subtitles = <<>>
  /\ formatted_subtitles = <<>>
  /\ translated_subtitles = <<>>
  /\ tr = NoTranslation
  /\ exported = <<>>
  /\ HarnessIdle
  /\ OrderIdle

translation_wanted_without_key ==
  /\ config.target_language \notin {None, ""}
  /\ config.target_language # config.source_language

\* line 249, lines 742-746: whether translate_subtitles translates at all
translation_wanted ==
  /\ config.target_language \notin {None, ""}
  /\ config.target_language # config.source_language
  /\ api_key

\* the recordings: short ones under every configuration, and the long one,
\* which has no speech, where only sounds are asked for and go on to the
\* translator
LongRecording ==
  [words |-> <<>>,
   detections |-> [i \in 1..(max_subtitles_per_batch + 1) |->
                     Detection(2000 * i, <<"D","o","o","r">>, 80)],
   onsets |-> <<>>]

\* the recording on which every detector has something to report
FullRecording ==
  [words |-> <<Word(0, 400, <<"H","e","l","l","o">>), Word(450, 900, <<"w","o","r","l","d">>)>>,
   detections |-> <<Detection(1200, <<"D","o","o","r">>, 80), Detection(1680, <<"D","o","o","r">>, 60),
                    Detection(0, <<"L","a","u","g","h","t","e","r">>, 90), Detection(3000, <<"S","c","r","e","a","m","i","n","g">>, 70),
                    Detection(3480, <<"S","i","l","e","n","c","e">>, 20)>>,
   onsets |-> <<Onset(1250, <<"[","D","o","o","r"," ","s","l","a","m","]">>, 50), Onset(3100, <<"[","T","h","u","n","d","e","r","]">>, 90)>>]

Detectors == {"transcriber", "yamnet", "librosa"}

Recordings ==
  [words : WordLists, detections : YamnetDetections, onsets : LibrosaOnsets]
  \cup (IF /\ translation_wanted
            /\ config.non_verbal /\ config.non_verbal_only_mode
            /\ config.max_chars_per_line = 42
        THEN {LongRecording} ELSE {})

\* lines 226-234: the two detector calls; any of the detectors that are
\* called may raise, which is examined on the full recording
Detect ==
  /\ pc = "start"
  /\ \E video \in Recordings, raised \in SUBSET Detectors :
       /\ raised # {} => video = FullRecording
       /\ "transcriber" \in raised => ~config.non_verbal
       /\ failed' = raised
       /\ speech_subtitles' = IF config.non_verbal THEN <<>>
                              ELSE generate_speech_subtitles(video.words,
                                                             "transcriber" \in raised)
       /\ sound_subtitles' = generate_sound_subtitles(video.detections, video.onsets,
                                                      config.genre, raised)
  /\ pc' = "detected"
  /\ UNCHANGED <<config, api_key, merged_subtitles, formatted_subtitles,
                 translated_subtitles, tr, exported, harness, order>>

\* lines 236-241
Merge ==
  /\ pc = "detected"
  /\ merged_subtitles' = merge_subtitles(speech_subtitles, sound_subtitles,
                                         config.accessibility_mode,
                                         config.non_verbal_only_mode)
  /\ pc' = "merged"
  /\ UNCHANGED <<failed, config, api_key, speech_subtitles, sound_subtitles,
                 formatted_subtitles, translated_subtitles, tr, exported, harness, order>>

\* lines 243-247; the events of merged_subtitles are the very events of
\* speech_subtitles (line 656 copies the list, not its events), so both lists
\* show the starts that line 720 advances
Format ==
  /\ pc = "merged"
  /\ formatted_subtitles' = format_subtitles(merged_subtitles, config.max_chars_per_line,
                                             config.lines_per_subtitle)
  /\ merged_subtitles' = subtitles_after_format(merged_subtitles, config.max_chars_per_line,
                                                config.lines_per_subtitle)
  /\ speech_subtitles' = IF config.non_verbal_only_mode THEN speech_subtitles
                         ELSE subtitles_after_format(speech_subtitles,
                                                     config.max_chars_per_line,
                                                     config.lines_per_subtitle)
  /\ pc' = "formatted"
  /\ UNCHANGED <<failed, config, api_key, sound_subtitles,
                 translated_subtitles, tr, exported, harness, order>>

OfType(subtitles, type) == SelectSeq(subtitles, LAMBDA sub : sub.type = type)

\* lines 753-763: the subsets translate_subtitles hands to
\* translate_texts_in_batches, each with its batches (line 784)
translation_queue(subtitles) ==
  (IF OfType(subtitles, "speech") # <<>>
   THEN <<[kind |-> "speech", batches |-> create_smart_batches(OfType(subtitles, "speech"))]>>
   ELSE <<>>)
  \o
  (IF OfType(subtitles, "sound") # <<>>
   THEN <<[kind |-> "sound", batches |-> create_smart_batches(OfType(subtitles, "sound"))]>>
   ELSE <<>>)

\* lines 249-256 and 741-751, up to the first request
TranslateBegin ==
  /\ pc = "formatted"
  /\ IF translation_wanted /\ translation_queue(formatted_subtitles) # <<>>
     THEN /\ tr' = [queue |-> translation_queue(formatted_subtitles),
                    batch_idx |-> 0, attempt |-> 0, phase |-> "request",
                    log |-> <<>>, out |-> <<>>, all |-> <<>>, last |-> <<>>,
                    done |-> <<>>]
          /\ pc' = "translating"
          /\ UNCHANGED translated_subtitles
     ELSE /\ translated_subtitles' = formatted_subtitles
          /\ pc' = "translated"
          /\ UNCHANGED tr
  /\ UNCHANGED <<failed, config, api_key, speech_subtitles, sound_subtitles,
                 merged_subtitles, formatted_subtitles, exported, harness, order>>

current_batch_from_the_end ==
  tr.queue[1].batches[Len(tr.queue[1].batches) - tr.batch_idx]

\* line 786: the batch of this iteration of the loop
current_batch == tr.queue[1].batches[tr.batch_idx + 1]

\* what the language model may answer for a batch: every line translated,
\* all but the last line, or blank content
answer_lines(batch, n) ==
  concat([i \in 1..n |->
            digits(i) \o <<"."," ","~">> \o batch[i].text \o (IF i < n THEN <<"\n">> ELSE <<>>)])

Answers(batch) ==
  {answer_lines(batch, Len(batch)) \o <<"\n">>, answer_lines(batch, Len(batch) - 1), <<" ">>}

NoResponse == [ok |-> FALSE, content |-> <<>>]

batch_result_dropping_failed(response, batch) ==
  IF response.ok /\ response.content # <<>>
  THEN parse_translation_response(response.content, batch)
  ELSE <<>>

\* lines 811-815: the events added for a batch
batch_result(response, batch) ==
  IF response.ok /\ response.content # <<>>
  THEN parse_translation_response(response.content, batch)
  ELSE batch

\* lines 811-823 and 757-767: the batch is resolved with `response`; run on to
\* the next await, or to the return of translate_subtitles.  tr.last keeps the
\* batch resolved last: its requests and sleeps, the response and the events
\* added for it; tr.done keeps every batch resolved so far.
FinishBatch(response, log) ==
  LET batch == current_batch
      batch_translations == batch_result(response, batch)
      out == tr.out \o batch_translations
      last == <<[kind |-> tr.queue[1].kind, batch |-> batch, log |-> log,
                 response |-> response, events |-> batch_translations]>>
  IN  IF tr.batch_idx < Len(tr.queue[1].batches) - 1
      THEN /\ tr' = [tr EXCEPT !.phase = "pause", !.log = <<>>, !.out = out,
                               !.last = last, !.done = tr.done \o last]
           /\ UNCHANGED <<pc, translated_subtitles>>
      ELSE IF Len(tr.queue) > 1
      THEN /\ tr' = [queue |-> Tail(tr.queue), batch_idx |-> 0, attempt |-> 0,
                     phase |-> "request", log |-> <<>>, out |-> <<>>,
                     all |-> tr.all \o out, last |-> last, done |-> tr.done \o last]
           /\ UNCHANGED <<pc, translated_subtitles>>
      ELSE /\ tr' = [queue |-> <<>>, batch_idx |-> 0, attempt |-> 0,
                     phase |-> "done", log |-> <<>>, out |-> <<>>,
                     all |-> tr.all \o out, last |-> last, done |-> tr.done \o last]
           /\ translated_subtitles' = sorted_by_start(tr.all \o out)
           /\ pc' = "translated"

\* lines 862-875: the request of this attempt is answered
RequestSucceeds ==
  /\ pc = "translating" /\ tr.phase = "request"
  /\ \E content \in Answers(current_batch) :
       FinishBatch([ok |-> TRUE, content |-> str_strip(content)],
                   Append(tr.log, [op |-> "request", attempt |-> tr.attempt, ok |-> TRUE]))
  /\ UNCHANGED <<failed, config, api_key, speech_subtitles, sound_subtitles,
                 merged_subtitles, formatted_subtitles, exported, harness, order>>

\* lines 877-881: the request of this attempt raises
RequestFails ==
  /\ pc = "translating" /\ tr.phase = "request"
  /\ LET log == Append(tr.log, [op |-> "request", attempt |-> tr.attempt, ok |-> FALSE])
     IN  IF tr.attempt < max_retries - 1
         THEN /\ tr' = [tr EXCEPT !.phase = "backoff", !.log = log]
              /\ UNCHANGED <<pc, translated_subtitles>>
         ELSE FinishBatch(NoResponse, log)
  /\ UNCHANGED <<failed, config, api_key, speech_subtitles, sound_subtitles,
                 merged_subtitles, formatted_subtitles, exported, harness, order>>

\* line 879: asyncio.sleep(2 ** attempt) is over
Backoff ==
  /\ pc = "translating" /\ tr.phase = "backoff"
  /\ tr' = [tr EXCEPT !.phase = "request", !.attempt = tr.attempt + 1,
                      !.log = Append(tr.log, [op |-> "sleep",
                                              seconds |-> backoff_seconds(tr.attempt)])]
  /\ UNCHANGED <<pc, failed, config, api_key, speech_subtitles, sound_subtitles, merged_subtitles,
                 formatted_subtitles, translated_subtitles, exported, harness, order>>

\* lines 817-818: asyncio.sleep(0.1) between two batches is over
Pause ==
  /\ pc = "translating" /\ tr.phase = "pause"
  /\ tr' = [tr EXCEPT !.phase = "request", !.batch_idx = tr.batch_idx + 1,
                      !.attempt = 0]
  /\ UNCHANGED <<pc, failed, config, api_key, speech_subtitles, sound_subtitles, merged_subtitles,
                 formatted_subtitles, translated_subtitles, exported, harness, order>>

\* lines 258-269
Export ==
  /\ pc = "translated"
  /\ exported' = [subtitles |-> translated_subtitles,
                  content |-> export_content(translated_subtitles, config.output_format)]
  /\ pc' = "exported"
  /\ UNCHANGED <<failed, config, api_key, speech_subtitles, sound_subtitles, merged_subtitles,
                 formatted_subtitles, translated_subtitles, tr, harness, order>>

Next ==
  \/ Detect
  \/ Merge
  \/ Format
  \/ TranslateBegin
  \/ RequestSucceeds
  \/ RequestFails
  \/ Backoff
  \/ Pause
  \/ Export

Spec == Init /\ [][Next]_vars

\* C1: the list generate_subtitles hands to export_subtitles is sorted
\* ascending by start.
C1_ExportedSorted ==
  pc = "exported" => IsSortedByStart(exported.subtitles)

\* a split phrase around a sound, translated with one subset failing
C1_Witness ==
  /\ pc = "exported"
  /\ Len(exported.subtitles) >= 3
  /\ \E i, j \in 1..Len(exported.subtitles) :
       /\ i < j
       /\ exported.subtitles[i].type = "sound"
       /\ exported.subtitles[i].text[1] = "~"
       /\ exported.subtitles[j].type = "speech"
       /\ exported.subtitles[j].text[1] # "~"
       /\ exported.subtitles[j] \notin Range(merged_subtitles)

\* the requests among the first n entries of a log
RequestsBefore(log, n) == Cardinality({i \in 1..n : log[i].op = "request"})

\* a log of requests and sleeps in which no more than three requests are
\* made, request k (from 0) is the (k+1)-th request, every request but the
\* first directly follows a sleep of 2^(k-1) seconds that directly follows
\* the failed request k-1, nothing follows a request that succeeded, and no
\* sleep follows the third request
RetryDiscipline(log) ==
  /\ RequestsBefore(log, Len(log)) <= 3
  /\ \A i \in 1..Len(log) :
       IF log[i].op = "request"
       THEN /\ log[i].attempt = RequestsBefore(log, i - 1)
            /\ log[i].attempt = 0 => i = 1
            /\ log[i].attempt > 0 =>
                 /\ i >= 3
                 /\ log[i - 1].op = "sleep"
                 /\ log[i - 1].seconds = 2 ^ (log[i].attempt - 1)
                 /\ log[i - 2].op = "request"
                 /\ ~log[i - 2].ok
            /\ log[i].ok => i = Len(log)
       ELSE /\ i > 1
            /\ log[i - 1].op = "request"
            /\ ~log[i - 1].ok
            /\ log[i - 1].attempt < 2

\* the events the translator has collected so far
Collected == tr.all \o tr.out

EndsWith(l, tail) ==
  /\ Len(tail) <= Len(l)
  /\ SubSeq(l, Len(l) - Len(tail) + 1, Len(l)) = tail

\* C10: for one batch at most 3 requests are made; a further attempt is made
\* only after the one before failed and after a sleep of 1 s, then 2 s; the
\* first successful response is returned and ends the requests; after the
\* third failure nothing is returned, without a further sleep, and the
\* batch's events go unmodified into the translator's output.
C10_RetryBackoff ==
  /\ RetryDiscipline(tr.log)
  /\ \A r \in Range(tr.last) :
       /\ RetryDiscipline(r.log)
       /\ r.log # <<>>
       /\ r.log[Len(r.log)].op = "request"
       /\ r.response.ok <=> r.log[Len(r.log)].ok
       /\ ~r.response.ok =>
            /\ RequestsBefore(r.log, Len(r.log)) = 3
            /\ r.response.content = <<>>
            /\ r.events = r.batch
            /\ EndsWith(Collected, r.batch)
            /\ pc \in {"translated", "exported"} =>
                 \A e \in Range(r.batch) : e \in Range(translated_subtitles)

\* a batch given up after three failed requests and sleeps of 1 s and 2 s,
\* its events in the returned list
C10_Witness ==
  /\ pc = "translated"
  /\ Len(tr.last) = 1
  /\ Len(tr.last[1].log) = 5
  /\ tr.last[1].log[2] = [op |-> "sleep", seconds |-> 1]
  /\ tr.last[1].log[4] = [op |-> "sleep", seconds |-> 2]
  /\ ~tr.last[1].log[5].ok
  /\ tr.last[1].events = tr.last[1].batch
  /\ \A e \in Range(tr.last[1].batch) : e \in Range(translated_subtitles)

\* every batch translate_subtitles has to translate, in the order of the calls
AllBatches(subtitles) ==
  concat([i \in 1..Len(translation_queue(subtitles)) |->
            translation_queue(subtitles)[i].batches])

\* the answer that translates every line of the batch
FullAnswer(batch) == str_strip(answer_lines(batch, Len(batch)) \o <<"\n">>)

\* C11: when translate_subtitles has returned, every batch was requested, in
\* order, whatever became of the batches before it; a batch whose three
\* requests failed contributes its events unmodified, a batch answered in full
\* contributes its events with the translated texts; the returned list holds
\* exactly the contributed events, sorted by start; and if every batch failed
\* the returned list equals the list passed in.
C11_FailureIsolated ==
  (pc \in {"translated", "exported"} /\ tr.phase = "done") =>
    LET batches == AllBatches(formatted_subtitles)
        contributed == concat([i \in 1..Len(tr.done) |-> tr.done[i].events])
    IN  /\ Len(tr.done) = Len(batches)
        /\ \A i \in 1..Len(tr.done) :
             /\ tr.done[i].batch = batches[i]
             /\ RequestsBefore(tr.done[i].log, Len(tr.done[i].log)) >= 1
             /\ ~tr.done[i].response.ok => tr.done[i].events = batches[i]
             /\ tr.done[i].response.content = FullAnswer(batches[i]) =>
                  /\ Len(tr.done[i].events) = Len(batches[i])
                  /\ \A j \in 1..Len(batches[i]) :
                       tr.done[i].events[j] =
                         [batches[i][j] EXCEPT !.text = <<"~">> \o batches[i][j].text]
        /\ IsSortedByStart(translated_subtitles)
        /\ Len(translated_subtitles) = Len(contributed)
        /\ \A e \in Range(contributed) :
             Count(translated_subtitles, e) = Count(contributed, e)
        /\ (\A i \in 1..Len(tr.done) : ~tr.done[i].response.ok) =>
             translated_subtitles = formatted_subtitles

\* two batches, the first given up and left in the original, the second
\* translated
C11_Witness ==
  /\ pc = "translated"
  /\ Len(tr.done) = 2
  /\ ~tr.done[1].response.ok
  /\ tr.done[1].events = tr.done[1].batch
  /\ tr.done[2].response.ok
  /\ tr.done[2].response.content = FullAnswer(tr.done[2].batch)
  /\ \A e \in Range(tr.done[1].batch) : e \in Range(translated_subtitles)
  /\ \A e \in Range(tr.done[2].batch) : e \notin Range(translated_subtitles)

\* what translate_texts_in_batches returned for the subset of one kind
ReturnedFor(kind) ==
  concat([i \in 1..Len(tr.done) |->
            IF tr.done[i].kind = kind THEN tr.done[i].events ELSE <<>>])

\* C26: while translate_subtitles runs, the batches resolved so far are the
\* first batches in their order and the batch being requested is the next
\* one, so no request of a batch is made before the batch ahead of it is
\* resolved; and what is returned for a subset holds one event per event of
\* the subset, at the same position, equal to it but for the text.
C26_BatchesInOrder ==
  LET batches == AllBatches(formatted_subtitles)
  IN  /\ pc = "translating" =>
           /\ Len(tr.done) < Len(batches)
           /\ \A i \in 1..Len(tr.done) : tr.done[i].batch = batches[i]
           /\ tr.phase \in {"request", "backoff"} =>
                current_batch = batches[Len(tr.done) + 1]
           /\ tr.phase = "pause" => tr.log = <<>>
      /\ (pc \in {"translated", "exported"} /\ tr.phase = "done") =>
           /\ \A i \in 1..Len(batches) : tr.done[i].batch = batches[i]
           /\ \A kind \in {"speech", "sound"} :
                LET input == OfType(formatted_subtitles, kind)
                    returned == ReturnedFor(kind)
                IN  /\ Len(returned) = Len(input)
                    /\ \A p \in 1..Len(input) :
                         returned[p] = [input[p] EXCEPT !.text = returned[p].text]

\* a subset of two batches: the first answered short of its last line, the
\* second given up after three requests
C26_Witness ==
  /\ pc = "translated"
  /\ \E i \in 1..(Len(tr.done) - 1) :
       /\ tr.done[i].kind = tr.done[i + 1].kind
       /\ tr.done[i].response.ok
       /\ tr.done[i].events # tr.done[i].batch
       /\ tr.done[i].events[Len(tr.done[i].batch)] = tr.done[i].batch[Len(tr.done[i].batch)]
       /\ ~tr.done[i + 1].response.ok
       /\ Len(tr.done[i + 1].log) = 5
       /\ Len(ReturnedFor(tr.done[i].kind)) > Len(tr.done[i].batch)

\* C27 as stated: while a batch waits in its retry backoff and batches after
\* it, of its subset or of the other, are still to be requested, a request
\* can be issued.
C27_BackoffLocal ==
  (/\ pc = "translating"
   /\ tr.phase = "backoff"
   /\ Len(tr.done) + 1 < Len(AllBatches(formatted_subtitles))) =>
    ENABLED (RequestSucceeds \/ RequestFails)

\* the file of no event: the header for VTT and ASS, nothing for SRT and TXT
FileOfNoEvent(output_format) ==
  IF output_format = "vtt" THEN <<"W","E","B","V","T","T","\n","\n">>
  ELSE IF output_format = "ass" THEN ass_header
  ELSE <<>>

FromSource(events, source) ==
  SelectSeq(events, LAMBDA e : e.type = "sound" /\ e.source = source)

\* C14: when detectors raised, the source that raised contributes no event,
\* every source that did not raise still contributes its events, up to the
\* merged list where the merge mode keeps them, and when all three raised
\* the file written is the file of no event in the requested format.
C14_DetectorFailures ==
  (pc # "start" /\ failed # {}) =>
    /\ "transcriber" \in failed => speech_subtitles = <<>>
    /\ \A source \in {"yamnet", "librosa"} :
         IF source \in failed
         THEN FromSource(sound_subtitles, source) = <<>>
         ELSE FromSource(sound_subtitles, source) # <<>>
    /\ ("transcriber" \notin failed /\ ~config.non_verbal) => speech_subtitles # <<>>
    /\ pc # "detected" =>
         /\ (config.accessibility_mode \/ config.non_verbal_only_mode) =>
              \A source \in {"yamnet", "librosa"} \ failed :
                FromSource(merged_subtitles, source) # <<>>
         /\ ("transcriber" \notin failed /\ ~config.non_verbal
                /\ ~config.non_verbal_only_mode) =>
              OfType(merged_subtitles, "speech") # <<>>
    /\ (pc = "exported" /\ failed = Detectors) =>
         /\ exported.subtitles = <<>>
         /\ exported.content = FileOfNoEvent(config.output_format)

\* the classifier raised: the file holds the phrase and the onset detector's
\* events, and nothing of the classifier
C14_Witness ==
  /\ pc = "exported"
  /\ failed = {"yamnet"}
  /\ config.accessibility_mode
  /\ OfType(exported.subtitles, "speech") # <<>>
  /\ Len(FromSource(exported.subtitles, "librosa")) = 2
  /\ FromSource(exported.subtitles, "yamnet") = <<>>
  /\ exported.content # FileOfNoEvent(config.output_format)

\* C19: when the target language is absent or empty, or equals the source
\* language, or no API key is set, no request is ever made and the list
\* handed to export_subtitles is the formatted list.
C19_TranslationSkipped ==
  (\/ config.target_language \in {None, ""}
   \/ config.target_language = config.source_language
   \/ ~api_key) =>
    /\ tr = NoTranslation
    /\ pc \in {"translated", "exported"} => translated_subtitles = formatted_subtitles
    /\ pc = "exported" => exported.subtitles = formatted_subtitles

\* a foreign target language without an API key: the phrase is exported as
\* it was formatted
C19_Witness ==
  /\ pc = "exported"
  /\ ~api_key
  /\ config.target_language = "fr"
  /\ OfType(formatted_subtitles, "speech") # <<>>
  /\ OfType(formatted_subtitles, "sound") # <<>>
  /\ exported.subtitles = formatted_subtitles
  /\ tr = NoTranslation

(***************************************************************************)
(* process_order over the videos of one order (SpecOrder)                  *)
(***************************************************************************)
MaxVideos == 2

\* original_filename without its extension; two videos of an order may carry
\* the same name
VideoNames == {"a", "b"}

\* the list generate_subtitles hands to export_subtitles for a video
OrderSubtitles ==
  <<SpeechEvent(0, 900, <<"H","e","l","l","o"," ","w","o","r","l","d">>), SoundEvent(1200, 2160, <<"[","D","o","o","r"," ","s","l","a","m","]">>, 80, 13)>>

\* the list generate_subtitles hands to export_subtitles for the video at
\* position idx: every video has subtitles of its own
generated_subtitles(idx) ==
  [k \in 1..Len(OrderSubtitles) |->
     [OrderSubtitles[k] EXCEPT !.start = @ + 100 * idx, !.end = @ + 100 * idx]]

NoFile == [exists |-> FALSE, content |-> <<>>]

FileWith(content) == [exists |-> TRUE, content |-> content]

\* the calls of generate_subtitles that raise to process_order (lines 236-268)
Stages == {"merge", "format", "export"}

\* lines 129, 261, 916: the output path is given by the order's directory, the
\* video's name and the order's format, so within one order by the name
output_file(name) == name

\* lines 918-926 when serializing event k + 1 raises: open(..., "w") has
\* truncated the file, the header and the k events before are written, and
\* leaving the with block closes the file
file_after_failed_export(subtitles, k, output_format) ==
  FileWith(export_content(SubSeq(subtitles, 1, k), output_format))

\* lines 918-928
file_after_export(subtitles, output_format) ==
  FileWith(export_content(subtitles, output_format))

video_status_always_completed(raised) == "completed"

\* lines 172-176 and 181-185
video_status_after(raised) == IF raised = "none" THEN "completed" ELSE "failed"

\* after lines 110-129: the order is PROCESSING, its videos fetched; a file
\* of an earlier run of the order may stand at an output path
InitOrder ==
  /\ \E output_format \in OutputFormats,
        videos \in UNION {[1..k -> VideoNames] : k \in 1..MaxVideos},
        old \in {{}, {"a"}} :
       order = [pc |-> "videos",
                output_format |-> output_format,
                videos |-> videos,
                idx |-> 1,
                status |-> [i \in 1..Len(videos) |-> "uploaded"],
                order_status |-> "processing",
                subtitle_files |-> <<>>,
                files |-> [name \in VideoNames |->
                             IF name \in old THEN FileWith(<<"o","l","d">>) ELSE NoFile],
                model_loads |-> 0,
                raised |-> <<>>,
                before |-> NoFile]
  /\ HarnessIdle
  /\ PipelineIdle

\* lines 131-185: one iteration of the loop over the videos.  generate_subtitles
\* runs the detectors, which load the classifier (line 345), then merge, format
\* and export, any of which may raise; export may raise at any event.
\* order.raised and order.before keep what raised for each video and the file
\* that stood at the output path before the last call of export_subtitles.
ProcessVideo ==
  /\ order.pc = "videos"
  /\ order.idx <= Len(order.videos)
  /\ \E raised \in {"none"} \cup Stages, k \in 0..(Len(OrderSubtitles) - 1) :
       /\ raised # "export" => k = 0
       /\ LET path == output_file(order.videos[order.idx])
          IN  order' =
                [order EXCEPT
                   !.idx = order.idx + 1,
                   !.model_loads = order.model_loads + 1,
                   !.status[order.idx] = video_status_after(raised),
                   !.files[path] =
                      IF raised = "none"
                      THEN file_after_export(generated_subtitles(order.idx),
                                             order.output_format)
                      ELSE IF raised = "export"
                      THEN file_after_failed_export(generated_subtitles(order.idx), k,
                                                    order.output_format)
                      ELSE order.files[path],
                   !.subtitle_files =
                      IF raised = "none"
                      THEN Append(order.subtitle_files,
                                  [video_id |-> order.idx, file_path |-> path,
                                   file_format |-> order.output_format])
                      ELSE order.subtitle_files,
                   !.raised = Append(order.raised, raised),
                   !.before = order.files[path]]
  /\ UNCHANGED <<harness, pipeline>>

\* lines 187-201
FinishOrder ==
  /\ order.pc = "videos"
  /\ order.idx > Len(order.videos)
  /\ order' = [order EXCEPT
                 !.pc = "done",
                 !.order_status =
                    IF \A i \in 1..Len(order.videos) :
                         order.status[i] \in {"completed", "failed"}
                    THEN "completed" ELSE "failed"]
  /\ UNCHANGED <<harness, pipeline>>

NextOrder ==
  \/ ProcessVideo
  \/ FinishOrder

SpecOrder == InitOrder /\ [][NextOrder]_vars

\* C12 as stated: after export_subtitles raised while serializing an event,
\* the output path holds what it held before the call: no file, or the
\* earlier file unchanged.
C12_ExportAtomic ==
  (Len(order.raised) >= 1 /\ order.raised[Len(order.raised)] = "export") =>
    order.files[output_file(order.videos[Len(order.raised)])] = order.before

\* C13 as stated: the classifier is loaded at most once, however many videos
\* are analyzed.
C13_ModelLoadedOnce == order.model_loads <= 1

\* the rows of subtitle_files recorded for video i
RowsOf(rows, i) == SelectSeq(rows, LAMBDA row : row.video_id = i)

C28_OwnOutputFile ==
  order.pc = "done" =>
    \A i \in 1..Len(order.videos) :
      order.status[i] = "completed" =>
        /\ \A j \in 1..Len(order.videos) :
             (j # i /\ order.status[j] = "completed") =>
               output_file(order.videos[j]) # output_file(order.videos[i])
        /\ \A row \in Range(RowsOf(order.subtitle_files, i)) :
             order.files[row.file_path] =
               file_after_export(generated_subtitles(i), order.output_format)

\* C30 as stated: when process_order is done, the order is COMPLETED or
\* FAILED, every video of it is COMPLETED or FAILED, and the order is
\* COMPLETED only if one of its videos is.
C30_OrderOutcome ==
  order.pc = "done" =>
    /\ order.order_status \in {"completed", "failed"}
    /\ \A i \in 1..Len(order.videos) : order.status[i] \in {"completed", "failed"}
    /\ order.order_status = "completed" =>
         \E i \in 1..Len(order.videos) : order.status[i] = "completed"

(***************************************************************************)
(* The stages of the pipeline, each on one input (SpecStage)               *)
(***************************************************************************)
MaxStageEvents == 2

\* sound events as the analyzers build them (lines 399-406, 446-453)
DetectedSound(s, t, c, source) ==
  [start |-> s, end |-> s + 960, text |-> t, type |-> "sound",
   confidence |-> c, source |-> source]

StageSounds ==
  {DetectedSound(1200, <<"[","D","o","o","r"," ","s","l","a","m","]">>, 80, "yamnet"),
   DetectedSound(0, <<"[","T","h","u","n","d","e","r","]">>, 90, "librosa"),
   DetectedSound(1250, <<"[","D","o","o","r"," ","s","l","a","m","]">>, 50, "librosa")}

StageSpeech ==
  {SpeechEvent(2000, 3000, <<"a","a"," ","b","b">>), SpeechEvent(0, 500, <<"H","i">>)}

\* lines 748-767 when every request is answered in full, or every request
\* fails
translate_subtitles(subtitles, answered) ==
  sorted_by_start(
    concat([i \in 1..Len(AllBatches(subtitles)) |->
              batch_result(IF answered
                           THEN [ok |-> TRUE,
                                 content |-> FullAnswer(AllBatches(subtitles)[i])]
                           ELSE NoResponse,
                           AllBatches(subtitles)[i])]))

\* the order merge_subtitles and format_subtitles leave (lines 654, 674,
\* 732): a stable sort by start of speech events followed by sound events
IsMergedOrder(l) ==
  /\ IsSortedByStart(l)
  /\ \A i, j \in 1..Len(l) :
       (i < j /\ l[i].start = l[j].start /\ l[i].type = "sound") => l[j].type = "sound"

StageCalls ==
  [stage : {"combine"},
   yamnet_events : SeqsUpTo(StageSounds, MaxStageEvents),
   librosa_events : SeqsUpTo(StageSounds, MaxStageEvents - 1),
   genre : {"horror"}]
  \cup
  [stage : {"deduplicate"},
   events : SeqsUpTo({with_priority(e, "horror") : e \in StageSounds}, MaxStageEvents)]
  \cup
  [stage : {"merge"},
   speech : SeqsUpTo(StageSpeech, MaxStageEvents),
   sound : SeqsUpTo({with_priority(e, "horror") : e \in StageSounds}, MaxStageEvents),
   accessibility_mode : BOOLEAN,
   non_verbal_only_mode : BOOLEAN]
  \cup
  [stage : {"format", "translate"},
   subtitles : {l \in SeqsUpTo(StageSpeech \cup {with_priority(e, "horror") : e \in StageSounds},
                               MaxStageEvents) : IsMergedOrder(l)},
   max_chars_per_line : {3, 42},
   lines_per_subtitle : {1},
   answered : BOOLEAN]

InitStage ==
  /\ args \in StageCalls
  /\ ret = <<>>
  /\ called = FALSE
  /\ PipelineIdle
  /\ OrderIdle

\* ret.result is what the stage returns, ret.passed the lists passed in as
\* the call leaves them
CallStage ==
  /\ ~called
  /\ called' = TRUE
  /\ ret' =
       CASE args.stage = "combine" ->
              [result |-> combine_sound_events(args.yamnet_events, args.librosa_events,
                                               args.genre),
               passed |-> [yamnet_events |-> events_after_combine(args.yamnet_events,
                                                                  args.genre),
                           librosa_events |-> events_after_combine(args.librosa_events,
                                                                   args.genre)]]
         [] args.stage = "deduplicate" ->
              [result |-> deduplicate_sound_events(args.events),
               passed |-> [events |-> events_after_deduplicate(args.events)]]
         [] args.stage = "merge" ->
              [result |-> merge_subtitles(args.speech, args.sound, args.accessibility_mode,
                                          args.non_verbal_only_mode),
               passed |-> [speech |-> args.speech, sound |-> args.sound]]
         [] args.stage = "format" ->
              [result |-> format_subtitles(args.subtitles, args.max_chars_per_line,
                                           args.lines_per_subtitle),
               passed |-> [subtitles |-> subtitles_after_format(args.subtitles,
                                                               args.max_chars_per_line,
                                                               args.lines_per_subtitle)]]
         [] args.stage = "translate" ->
              [result |-> translate_subtitles(args.subtitles, args.answered),
               passed |-> [subtitles |-> args.subtitles]]
  /\ UNCHANGED <<args, pipeline, order>>

NextStage == CallStage

SpecStage == InitStage /\ [][NextStage]_vars

\* C16 as stated: after a stage has returned, every list passed to it holds
\* the same events in the same order, each with the same keys and values.
C16_InputsUnchanged ==
  called => \A list \in DOMAIN ret.passed : ret.passed[list] = args[list]

(***************************************************************************)
(* Payment-success handlers of app/routes/payments.py on one order          *)
(* (SpecPay).  Every request runs as a coroutine of its own with a         *)
(* connection of its own; a step is what a handler does to the orders row  *)
(* at one await.                                                           *)
(***************************************************************************)
MaxDeliveries == 2

\* the three ways a payment success reaches the server
PaymentEvents == {"checkout.session.completed", "payment_intent.succeeded", "success"}

\* session.get("payment_intent") and payment_intent["id"]
IntentId == "pi_test"

\* a request as received; valid: the webhook signature verifies (lines
\* 310-322), or the session retrieved for /success is paid (lines 113-119)
Delivery(kind, valid) == [kind |-> kind, valid |-> valid, at |-> "received", existing |-> None]

\* lines 355-377 and 457-470: the columns the handler's UPDATE statements set
\* first
row_after_update(row, kind) ==
  [row EXCEPT !.payment_status = "paid",
              !.status = "paid",
              !.payment_intent_id =
                 IF kind = "payment_intent.succeeded" THEN IntentId ELSE @]

\* an unpaid order and the requests that arrive for it
InitPay ==
  /\ \E requests \in UNION {[1..n -> {Delivery(kind, valid) : kind \in PaymentEvents,
                                                              valid \in BOOLEAN}] :
                             n \in 1..MaxDeliveries} :
       order = [pc |-> "payment",
                payment_status |-> "unpaid",
                status |-> "created",
                payment_intent_id |-> None,
                dispatched |-> 0,
                requests |-> requests]
  /\ HarnessIdle
  /\ PipelineIdle

\* lines 310-352, 113-135, 448-455: the request is verified and the order's
\* payment_status is read; an order read as PAID ends the handler
Select(r) ==
  /\ order.pc = "payment"
  /\ order.requests[r].at = "received"
  /\ order' =
       [order EXCEPT
          !.requests[r].at =
             IF ~order.requests[r].valid THEN "rejected"
             ELSE IF order.payment_status = "paid" THEN "done"
             ELSE "read",
          !.requests[r].existing =
             IF order.requests[r].valid THEN order.payment_status ELSE None]
  /\ UNCHANGED <<harness, pipeline>>

\* lines 355-360, 139-143, 457-470: the first UPDATE of the handler
Update(r) ==
  /\ order.pc = "payment"
  /\ order.requests[r].at = "read"
  /\ order' = [row_after_update(order, order.requests[r].kind) EXCEPT
                 !.requests[r].at = "updated"]
  /\ UNCHANGED <<harness, pipeline>>

\* lines 362-377: checkout.session.completed stores the payment intent
StoreIntent(r) ==
  /\ order.pc = "payment"
  /\ order.requests[r].kind = "checkout.session.completed"
  /\ order.requests[r].at = "updated"
  /\ order' = [order EXCEPT !.payment_status = "paid",
                            !.status = "paid",
                            !.payment_intent_id = IntentId,
                            !.requests[r].at = "stored"]
  /\ UNCHANGED <<harness, pipeline>>

\* the handler has made its updates
Updated(r) ==
  IF order.requests[r].kind = "checkout.session.completed"
  THEN order.requests[r].at = "stored"
  ELSE order.requests[r].at = "updated"

\* lines 399, 165, 484: process_order_task.delay(order_id)
Dispatch(r) ==
  /\ order.pc = "payment"
  /\ Updated(r)
  /\ order' = [order EXCEPT !.dispatched = @ + 1, !.requests[r].at = "done"]
  /\ UNCHANGED <<harness, pipeline>>

\* lines 379-396, 146-161, 474-481: logging the activity or creating the
\* notification raises before the task is dispatched
Abort(r) ==
  /\ order.pc = "payment"
  /\ Updated(r)
  /\ order' = [order EXCEPT !.requests[r].at = "failed"]
  /\ UNCHANGED <<harness, pipeline>>

NextPay ==
  \E r \in 1..Len(order.requests) :
    \/ Select(r)
    \/ Update(r)
    \/ StoreIntent(r)
    \/ Dispatch(r)
    \/ Abort(r)

SpecPay == InitPay /\ [][NextPay]_vars

\* C21 as stated: however the handlers of the payment-success events of one
\* order interleave, process_order_task is dispatched at most once.
C21_DispatchedOnce == order.dispatched <= 1

=============================================================================
